---- MODULE Spec2Model ----
(***************************************************************************)
(* Backtest / metrics engine and ranking of agentic_trader.                *)
(*                                                                         *)
(* The simulation library (vectorbt: Portfolio.from_signals and            *)
(* Portfolio.from_holding) is modelled by its long-only, all-in,           *)
(* close-price order execution with the default conflict mode (a bar with  *)
(* both signals is ignored).  Money is kept exactly, as a multiple of the  *)
(* initial cash in factored form (see the Q operators).                    *)
(***************************************************************************)
EXTENDS Integers, Sequences, FiniteSets, TLC

(* ------------------------------ bounds --------------------------------- *)

\* Longest price series the bar-by-bar simulation walks through.
NBars == 3

\* Close prices are drawn from 1..MaxPrice.
MaxPrice == 2

\* Longest strategy list handed to backtest_node.
MaxStrategies == 2

(* ------------------------- program constants --------------------------- *)

\* fees=0.001 and slippage=0.001, in per mille.
FEES_PM == 1

SLIPPAGE_PM == 1

\* init_cash=100000
INIT_CASH == 100000

(* ------------------------------ values --------------------------------- *)
(* A metric value is a tagged pair.  "num": an integer; "nan": the float   *)
(* NaN (mean of nothing, 0/0); "ratio": a reduced fraction that is not an  *)
(* integer; other tags: exact but unevaluated library results.             *)

Num(n) == <<"num", n>>

NaN == <<"nan", 0>>

Abs(n) == IF n < 0 THEN -n ELSE n

Sgn(n) == IF n < 0 THEN -1 ELSE IF n > 0 THEN 1 ELSE 0

RECURSIVE Gcd(_, _)
Gcd(a, b) == IF b = 0 THEN a ELSE Gcd(b, a % b)

\* a / b as floats divide inside a pandas/numpy mean: 0/0 is NaN.
Ratio(a, b) ==
    IF b = 0 THEN NaN
    ELSE IF a % b = 0 THEN Num(a \div b)
    ELSE LET g == Gcd(Abs(a), Abs(b)) IN <<"ratio", <<(a \div g) * Sgn(b), Abs(b) \div g>>>>

RECURSIVE SumSeq(_)
SumSeq(s) == IF s = <<>> THEN 0 ELSE Head(s) + SumSeq(Tail(s))

\* Series.mean() / MappedArray.mean(): NaN for an empty collection.
Mean(s) == Ratio(SumSeq(s), Len(s))

(* --------------------------- exact money ------------------------------- *)
(* A quantity q stands for                                                 *)
(*   init_cash * (pn/pd) * sell_keep^nx / buy_cost^ne                      *)
(* with pn/pd reduced; pn = 0 is zero.  With prices below 7 the form is    *)
(* canonical: two quantities are equal as numbers iff the records are.     *)

ZeroQ == [pn |-> 0, pd |-> 1, ne |-> 0, nx |-> 0]

OneQ == [pn |-> 1, pd |-> 1, ne |-> 0, nx |-> 0]

NormQ(q) ==
    LET g == Gcd(q.pn, q.pd)
    IN  [q EXCEPT !.pn = q.pn \div g, !.pd = q.pd \div g]

\* 1 when an order of this portfolio loses something to fees or slippage.
Costly(cfg) == IF cfg.fees_pm + cfg.slippage_pm > 0 THEN 1 ELSE 0

\* (1+slippage)(1+fees) and (1-slippage)(1-fees), times 10^6.
BuyCost(cfg) == (1000 + cfg.slippage_pm) * (1000 + cfg.fees_pm)

SellKeep(cfg) == (1000 - cfg.slippage_pm) * (1000 - cfg.fees_pm)

\* Shares bought with all of `cash` at close price p.
QBuy(cash, p, cfg) ==
    NormQ([cash EXCEPT !.pd = cash.pd * p, !.ne = cash.ne + Costly(cfg)])

\* Cash received for all of `shares` at close price p.
QSell(shares, p, cfg) ==
    NormQ([shares EXCEPT !.pn = shares.pn * p, !.nx = shares.nx + Costly(cfg)])

\* Mark-to-market value of `shares` at close price p (no order, no costs).
QMark(shares, p) == NormQ([shares EXCEPT !.pn = shares.pn * p])

(* ----------------------- portfolio simulation -------------------------- *)

\* backtest_node's keyword arguments to Portfolio.from_signals.
SignalsCfg == [init_cash |-> INIT_CASH, fees_pm |-> FEES_PM, slippage_pm |-> SLIPPAGE_PM]

\* Portfolio.from_holding(df['close'], freq='1D'): the library defaults.
HoldingCfg == [init_cash |-> 100, fees_pm |-> 0, slippage_pm |-> 0]

\* A portfolio before its first bar: flat, all cash.
NewPortfolio(cfg) ==
    [cfg |-> cfg, close |-> <<>>, position |-> "flat", cash |-> OneQ,
     shares |-> ZeroQ, orders |-> <<>>, trades |-> <<>>]

\* Mutant: a conflict resolved in favour of the entry.
ResolveConflictEntryWins(entry, exit) ==
    [entry |-> entry, exit |-> exit /\ ~entry]

\* Default conflict mode: a bar with both signals carries no signal.
ResolveConflict(entry, exit) ==
    IF entry /\ exit THEN [entry |-> FALSE, exit |-> FALSE]
    ELSE [entry |-> entry, exit |-> exit]

LastBuy(pf) == pf.orders[Len(pf.orders)]

\* Mutant: an accumulating portfolio, where an entry while long is one more
\* buy order.
SimBarAccumulate(pf, idx, price, entry, exit) ==
    LET seen == [pf EXCEPT !.close = Append(pf.close, price)]
    IN  IF entry /\ ~exit
        THEN [seen EXCEPT !.position = "long",
                          !.shares = QBuy(OneQ, price, pf.cfg),
                          !.cash = ZeroQ,
                          !.orders = Append(pf.orders,
                              [idx |-> idx, side |-> "buy", price |-> price])]
        ELSE IF exit /\ ~entry /\ pf.position = "long"
        THEN [seen EXCEPT !.position = "flat",
                          !.cash = QSell(pf.shares, price, pf.cfg),
                          !.shares = ZeroQ,
                          !.orders = Append(pf.orders,
                              [idx |-> idx, side |-> "sell", price |-> price]),
                          !.trades = Append(pf.trades,
                              [entry_idx |-> LastBuy(pf).idx,
                               entry_price |-> LastBuy(pf).price,
                               exit_idx |-> idx, exit_price |-> price,
                               status |-> "Closed"])]
        ELSE seen

\* One bar of Portfolio.from_signals for a long-only, non-accumulating,
\* size=inf portfolio: idx is the bar (from 0), price its close.
SimBar(pf, idx, price, entry, exit) ==
    LET sig == ResolveConflict(entry, exit)
        seen == [pf EXCEPT !.close = Append(pf.close, price)]
    IN  IF sig.entry /\ pf.position = "flat" /\ pf.cash.pn > 0
        THEN [seen EXCEPT !.position = "long",
                          !.shares = QBuy(pf.cash, price, pf.cfg),
                          !.cash = ZeroQ,
                          !.orders = Append(pf.orders,
                              [idx |-> idx, side |-> "buy", price |-> price])]
        ELSE IF sig.exit /\ pf.position = "long"
        THEN [seen EXCEPT !.position = "flat",
                          !.cash = QSell(pf.shares, price, pf.cfg),
                          !.shares = ZeroQ,
                          !.orders = Append(pf.orders,
                              [idx |-> idx, side |-> "sell", price |-> price]),
                          !.trades = Append(pf.trades,
                              [entry_idx |-> LastBuy(pf).idx,
                               entry_price |-> LastBuy(pf).price,
                               exit_idx |-> idx, exit_price |-> price,
                               status |-> "Closed"])]
        ELSE seen

RECURSIVE SimFrom(_, _, _, _)
SimFrom(pf, close, entries, exits) ==
    LET idx == Len(pf.close)
    IN  IF idx >= Len(close) THEN pf
        ELSE SimFrom(SimBar(pf, idx, close[idx + 1], entries[idx + 1], exits[idx + 1]),
                     close, entries, exits)

Ok(v) == [raised |-> FALSE, value |-> v, error |-> ""]

Raise(msg) == [raised |-> TRUE, value |-> NaN, error |-> msg]

\* Portfolio.from_signals(close, entries=..., exits=..., ...): signals that
\* do not broadcast against the price series raise.
FromSignals(close, entries, exits, cfg) ==
    IF Len(entries) # Len(close) \/ Len(exits) # Len(close)
    THEN Raise("shape mismatch: objects cannot be broadcast to a single shape")
    ELSE Ok(SimFrom(NewPortfolio(cfg), close, entries, exits))

\* The signals Portfolio.from_holding hands to from_signals: entries=True,
\* exits=False, broadcast over the series.
\* Mutant: a benchmark that enters one bar late.
HoldingEntryFromSecond(idx) == idx >= 1

HoldingEntry(idx) == TRUE

HoldingExit(idx) == FALSE

\* Portfolio.from_holding(close): buy at the first bar and hold.
FromHolding(close) ==
    FromSignals(close, [i \in 1..Len(close) |-> HoldingEntry(i - 1)],
                [i \in 1..Len(close) |-> HoldingExit(i - 1)], HoldingCfg)

(* --------------------------- wall-clock dates -------------------------- *)

\* datetime's calendar: the proleptic Gregorian leap-year rule.
IsLeap(y) == y % 4 = 0 /\ (y % 100 # 0 \/ y % 400 = 0)

DaysInMonth(y, m) ==
    IF m = 2 THEN (IF IsLeap(y) THEN 29 ELSE 28)
    ELSE IF m \in {4, 6, 9, 11} THEN 30 ELSE 31

\* datetime(y, m, d) raises ValueError unless this holds.
ValidDate(y, m, d) == y >= 1 /\ m \in 1..12 /\ d \in 1..DaysInMonth(y, m)

\* The years datetime.now() is drawn from: a common year and a leap year.
Years == {2023, 2024}

Dates == { t \in Years \X (1..12) \X (1..31) : ValidDate(t[1], t[2], t[3]) }

PeriodLabels == <<"MTD", "QTD", "YTD", "1M", "3M", "6M", "1Y">>

PeriodKeys == <<"mtd", "qtd", "ytd", "1m", "3m", "6m", "1y">>

\* The arguments calculate_period_return hands to datetime(...) for a known
\* period label, as <<year, month, day>>.
StartDate(today, period) ==
    LET year == today[1]
        month == today[2]
        day == today[3]
    IN  CASE period = "MTD" -> <<year, month, 1>>
          [] period = "QTD" -> <<year, 3 * ((month - 1) \div 3) + 1, 1>>
          [] period = "YTD" -> <<year, 1, 1>>
          [] period = "1M" -> IF month > 1 THEN <<year, month - 1, day>>
                              ELSE <<year - 1, 12, day>>
          [] period = "3M" -> IF month > 3 THEN <<year, month - 3, day>>
                              ELSE <<year - 1, 12 + (month - 3), day>>
          [] period = "6M" -> IF month > 6 THEN <<year, month - 6, day>>
                              ELSE <<year - 1, 12 + (month - 6), day>>
          [] period = "1Y" -> <<year - 1, month, day>>

\* portfolio.slice(start_date=...).total_return() inside the try block: the
\* library call either fails (caught by the bare except, giving 0) or yields
\* the return of the portfolio from start_date on.
SliceTotalReturn(portfolio, start_date, slice_ok) ==
    IF slice_ok THEN <<"slice_total_return", <<start_date, portfolio.orders, portfolio.close>>>>
    ELSE Num(0)

\* calculate_period_return(portfolio, period) at wall-clock date `today`.
calculate_period_return(portfolio, period, today, slice_ok) ==
    IF period \notin { PeriodLabels[i] : i \in 1..Len(PeriodLabels) } THEN Ok(Num(0))
    ELSE LET start_date == StartDate(today, period)
         IN  IF ~ValidDate(start_date[1], start_date[2], start_date[3])
             THEN Raise("day is out of range for month")
             ELSE Ok(SliceTotalReturn(portfolio, start_date, slice_ok))

(* ------------------------------ metrics -------------------------------- *)

\* portfolio.trades(): the closed trades, then the open position (if any)
\* as an open trade marked at the last close.
Trades(portfolio) ==
    IF portfolio.position = "long"
    THEN Append(portfolio.trades,
                [entry_idx |-> LastBuy(portfolio).idx,
                 entry_price |-> LastBuy(portfolio).price,
                 exit_idx |-> Len(portfolio.close) - 1,
                 exit_price |-> portfolio.close[Len(portfolio.close)],
                 status |-> "Open"])
    ELSE portfolio.trades

\* Sign of a trade's P&L: exit proceeds against entry cost, both per share
\* and times 10^6 (an open trade pays no exit costs yet).
PnlSign(portfolio, t) ==
    IF t.status = "Closed"
    THEN Sgn(t.exit_price * SellKeep(portfolio.cfg) - t.entry_price * BuyCost(portfolio.cfg))
    ELSE Sgn(t.exit_price * 1000000 - t.entry_price * BuyCost(portfolio.cfg))

Winning(portfolio) ==
    LET IsWin(t) == PnlSign(portfolio, t) > 0 IN SelectSeq(Trades(portfolio), IsWin)

Losing(portfolio) ==
    LET IsLoss(t) == PnlSign(portfolio, t) < 0 IN SelectSeq(Trades(portfolio), IsLoss)

\* An exact library result that the model does not evaluate: the named
\* statistic of this very portfolio.
Term(stat, portfolio) == <<"term", <<stat, portfolio.orders, portfolio.close>>>>

\* portfolio.total_return(): (final value - init_cash) / init_cash.
TotalReturn(portfolio) ==
    LET n == Len(portfolio.close)
        final == IF portfolio.position = "long"
                 THEN QMark(portfolio.shares, portfolio.close[n])
                 ELSE portfolio.cash
    IN  IF final = OneQ THEN Num(0) ELSE <<"growth", final>>

\* portfolio.win_rate(): winning trades over trades (0/0 with no trades).
WinRate(portfolio) == Ratio(Len(Winning(portfolio)), Len(Trades(portfolio)))

\* portfolio.profit_factor(): gross profit over gross loss (0/0 with no trades).
ProfitFactor(portfolio) ==
    IF Len(Trades(portfolio)) = 0 THEN NaN ELSE Term("profit_factor", portfolio)

\* portfolio.trades().duration.mean()
AvgDuration(portfolio) ==
    LET ts == Trades(portfolio)
    IN  Mean([i \in 1..Len(ts) |-> ts[i].exit_idx - ts[i].entry_idx])

\* The "trades" group of calculate_metrics.
TradeStats(portfolio) ==
    [total_trades |-> Num(Len(Trades(portfolio))),
     win_count |-> Num(Len(Winning(portfolio))),
     loss_count |-> Num(Len(Losing(portfolio))),
     avg_win |-> IF Len(Winning(portfolio)) > 0
                 THEN Term("winning.pnl.mean", portfolio) ELSE Num(0),
     avg_loss |-> IF Len(Losing(portfolio)) > 0
                  THEN Term("losing.pnl.mean", portfolio) ELSE Num(0),
     avg_duration |-> AvgDuration(portfolio),
     max_trade_profit |-> IF Len(Trades(portfolio)) > 0
                          THEN Term("pnl.max", portfolio) ELSE Num(0),
     max_trade_loss |-> IF Len(Trades(portfolio)) > 0
                        THEN Term("pnl.min", portfolio) ELSE Num(0)]

\* The "period_returns" group: one calculate_period_return call per label.
PeriodReturns(portfolio, today, slice_ok) ==
    [i \in 1..Len(PeriodLabels) |->
        calculate_period_return(portfolio, PeriodLabels[i], today, slice_ok)]

\* calculate_metrics(portfolio, strategy_name): the bundle, or the exception
\* of the first period-return call that raises.
calculate_metrics(portfolio, strategy_name, today, slice_ok) ==
    LET pr == PeriodReturns(portfolio, today, slice_ok)
        bad == { i \in 1..Len(PeriodLabels) : pr[i].raised }
    IN  IF bad # {}
        THEN Raise(pr[CHOOSE i \in bad : \A j \in bad : i <= j].error)
        ELSE Ok([strategy |-> strategy_name,
                 total_return |-> TotalReturn(portfolio),
                 cagr |-> Term("annualized_return", portfolio),
                 sharpe_ratio |-> Term("sharpe_ratio", portfolio),
                 win_rate |-> WinRate(portfolio),
                 profit_factor |-> ProfitFactor(portfolio),
                 trades |-> TradeStats(portfolio),
                 period_returns |->
                     [k \in { PeriodKeys[i] : i \in 1..Len(PeriodKeys) } |->
                         pr[CHOOSE i \in 1..Len(PeriodKeys) : PeriodKeys[i] = k].value]])

(* ------------------------ benchmark-relative --------------------------- *)

RECURSIVE SumProd(_, _)
SumProd(s, t) ==
    IF s = <<>> \/ t = <<>> THEN 0 ELSE Head(s) * Head(t) + SumProd(Tail(s), Tail(t))

\* n(n-1) times the sample variance (ddof=1) of s; Series.var()/std() are
\* NaN below two observations.
VarNumer(s) == Len(s) * SumProd(s, s) - SumSeq(s) * SumSeq(s)

\* Series.std() == 0
StdIsZero(s) == Len(s) >= 2 /\ VarNumer(s) = 0

\* Mutant: beta without the guard on the benchmark's standard deviation.
calculate_beta_unguarded(strategy_returns, benchmark_returns) ==
    IF Len(strategy_returns) # Len(benchmark_returns) THEN Num(0)
    ELSE IF Len(benchmark_returns) < 2 THEN NaN
    ELSE Ratio(Len(benchmark_returns) * SumProd(strategy_returns, benchmark_returns)
                   - SumSeq(strategy_returns) * SumSeq(benchmark_returns),
               VarNumer(benchmark_returns))

\* calculate_beta(strategy_returns, benchmark_returns)
calculate_beta(strategy_returns, benchmark_returns) ==
    IF Len(strategy_returns) # Len(benchmark_returns) THEN Num(0)
    ELSE IF StdIsZero(benchmark_returns) THEN Num(0)
    ELSE IF Len(benchmark_returns) < 2 THEN NaN
    ELSE Ratio(Len(benchmark_returns) * SumProd(strategy_returns, benchmark_returns)
                   - SumSeq(strategy_returns) * SumSeq(benchmark_returns),
               VarNumer(benchmark_returns))

\* mean / std * sqrt(252) of a series with non-zero std, as sign * sqrt(a / b).
AnnualizedMeanOverStd(s) ==
    LET n == Len(s)
        a == 252 * SumSeq(s) * SumSeq(s) * (n - 1)
        b == n * VarNumer(s)
        g == Gcd(a, b)
    IN  IF SumSeq(s) = 0 THEN Num(0)
        ELSE <<"signed_sqrt", <<Sgn(SumSeq(s)), a \div g, b \div g>>>>

\* calculate_information_ratio(strategy_returns, benchmark_returns)
calculate_information_ratio(strategy_returns, benchmark_returns) ==
    IF Len(strategy_returns) # Len(benchmark_returns) THEN Num(0)
    ELSE LET excess_returns == [i \in 1..Len(strategy_returns) |->
                                   strategy_returns[i] - benchmark_returns[i]]
         IN  IF StdIsZero(excess_returns) THEN Num(0)
             ELSE IF Len(excess_returns) < 2 THEN NaN
             ELSE AnnualizedMeanOverStd(excess_returns)

(* ------------------------- backtest_node ------------------------------- *)
(* A dict is a sequence of [key, value] in insertion order, keys distinct. *)

DictKeys(d) == { d[k].key : k \in 1..Len(d) }

DictGet(d, key) == d[CHOOSE k \in 1..Len(d) : d[k].key = key].value

\* Mutant: an assignment that always adds an item, also for a key present.
DictSetAppend(d, key, value) == Append(d, [key |-> key, value |-> value])

\* Mutant: an assignment that leaves the value of a present key alone.
DictSetKeepFirst(d, key, value) ==
    IF key \in DictKeys(d) THEN d ELSE Append(d, [key |-> key, value |-> value])

\* Mutant: an assignment that starts the dict afresh.
DictSetOnly(d, key, value) == <<[key |-> key, value |-> value]>>

\* d[key] = value: a present key keeps its place and takes the new value.
DictSet(d, key, value) ==
    IF key \in DictKeys(d)
    THEN [k \in 1..Len(d) |-> IF d[k].key = key THEN [key |-> key, value |-> value] ELSE d[k]]
    ELSE Append(d, [key |-> key, value |-> value])

\* parse_strategies(state["strategies"]): the list of StrategySignal records
\* {name, entries, exits} that the loop of backtest_node reads.
parse_strategies(raw) ==
    [k \in 1..Len(raw) |->
        [name |-> raw[k].name, entries |-> raw[k].entries, exits |-> raw[k].exits]]

\* a - b on metric values.
Diff(a, b) ==
    IF a[1] = "nan" \/ b[1] = "nan" THEN NaN
    ELSE IF a[1] = "num" /\ b[1] = "num" THEN Num(a[2] - b[2])
    ELSE <<"diff", <<a, b>>>>

\* A statistic of the two return series pf.returns() and
\* benchmark_pf.returns(), exact and unevaluated.
Term2(stat, portfolio, benchmark) ==
    <<"term2", <<stat, portfolio.orders, benchmark.orders, portfolio.close>>>>

\* The body of the loop of backtest_node for one strategy: what the try
\* block, or else the except block, stores under the strategy's name.
StrategyEntry(strat, close, benchmark, benchmark_metrics, now, sl) ==
    LET sim == FromSignals(close, strat.entries, strat.exits, SignalsCfg)
    IN  IF sim.raised THEN [error |-> sim.error]
        ELSE LET m == calculate_metrics(sim.value, strat.name, now, sl)
             IN  IF m.raised THEN [error |-> m.error]
                 ELSE m.value @@ ("vs_benchmark" :>
                     [excess_return |-> Diff(m.value.total_return,
                                             benchmark_metrics.total_return),
                      alpha |-> Diff(m.value.cagr, benchmark_metrics.cagr),
                      beta |-> Term2("calculate_beta", sim.value, benchmark),
                      information_ratio |->
                          Term2("calculate_information_ratio", sim.value, benchmark)])

\* The for loop of backtest_node over a list of strategies, from `res` on.
RECURSIVE BacktestLoop(_, _, _, _, _, _, _)
BacktestLoop(res, strats, close, benchmark, benchmark_metrics, now, sl) ==
    IF strats = <<>> THEN res
    ELSE BacktestLoop(
             DictSet(res, Head(strats).name,
                     StrategyEntry(Head(strats), close, benchmark, benchmark_metrics, now, sl)),
             Tail(strats), close, benchmark, benchmark_metrics, now, sl)

\* backtest_node(state)["results"], or the exception it raises.
backtest_node(close, raw_strategies, now, sl) ==
    LET strats == parse_strategies(raw_strategies)
        benchmark == FromHolding(close)
    IN  IF benchmark.raised THEN Raise(benchmark.error)
        ELSE LET bm == calculate_metrics(benchmark.value, "Buy & Hold", now, sl)
             IN  IF bm.raised THEN Raise(bm.error)
                 ELSE Ok(DictSet(BacktestLoop(<<>>, strats, close, benchmark.value,
                                              bm.value, now, sl),
                                 "benchmark", bm.value))

(* ------------------------- evaluate_node ------------------------------- *)

\* a < b on floats: false whenever one side is NaN.
ValLt(a, b) ==
    CASE a[1] = "num" /\ b[1] = "num" -> a[2] < b[2]
      [] a[1] = "num" /\ b[1] = "ratio" -> a[2] * b[2][2] < b[2][1]
      [] a[1] = "ratio" /\ b[1] = "num" -> a[2][1] < b[2] * a[2][2]
      [] a[1] = "ratio" /\ b[1] = "ratio" -> a[2][1] * b[2][2] < b[2][1] * a[2][2]
      [] OTHER -> FALSE

\* The sort key of evaluate_node: x[1]["sharpe"].
SortKey(item) == item.value["sharpe"]

\* Insert x behind every item whose key is not below x's (a stable
\* descending sort: equal keys keep their order).
RECURSIVE InsertDesc(_, _)
InsertDesc(sorted, x) ==
    IF sorted = <<>> THEN <<x>>
    ELSE IF ValLt(SortKey(Head(sorted)), SortKey(x)) THEN <<x>> \o sorted
    ELSE <<Head(sorted)>> \o InsertDesc(Tail(sorted), x)

RECURSIVE SortDesc(_)
SortDesc(items) ==
    IF items = <<>> THEN <<>>
    ELSE InsertDesc(SortDesc(SubSeq(items, 1, Len(items) - 1)), items[Len(items)])

\* evaluate_node(state): sorted(...) first takes the key of every item, and
\* an item without the key "sharpe" raises KeyError.
evaluate_node(res) ==
    IF \E k \in 1..Len(res) : "sharpe" \notin DOMAIN res[k].value
    THEN Raise("KeyError: 'sharpe'")
    ELSE LET scored == SortDesc(res)
         IN  Ok([top_3 |-> [k \in 1..(IF Len(scored) < 3 THEN Len(scored) ELSE 3) |->
                               scored[k].key],
                 scored |-> scored])

(* ------------------------- float arithmetic ---------------------------- *)
(* numpy float64 values: "num" and "ratio" are the finite ones, "inf"      *)
(* carries its sign, "nan" is NaN.  Division by zero gives inf or NaN.     *)

Inf == <<"inf", 1>>

NegInf == <<"inf", -1>>

IsFinite(v) == v[1] \in {"num", "ratio"}

\* Numerator and denominator (positive) of a finite value.
NumerOf(v) == IF v[1] = "num" THEN v[2] ELSE v[2][1]

DenomOf(v) == IF v[1] = "num" THEN 1 ELSE v[2][2]

\* The finite value a / b, b # 0.
Frac(a, b) == Ratio(a, b)

\* Sign of a value that is not NaN.
VSgn(v) == IF v[1] = "inf" THEN v[2] ELSE Sgn(NumerOf(v))

VNeg(v) ==
    CASE v[1] = "nan" -> NaN
      [] v[1] = "inf" -> <<"inf", -v[2]>>
      [] OTHER -> Frac(-NumerOf(v), DenomOf(v))

\* abs(v)
VAbs(v) == IF v[1] # "nan" /\ VSgn(v) < 0 THEN VNeg(v) ELSE v

\* a < b, false when one side is NaN.
VLt(a, b) ==
    CASE a[1] = "nan" \/ b[1] = "nan" -> FALSE
      [] a[1] = "inf" /\ b[1] = "inf" -> a[2] < b[2]
      [] a[1] = "inf" -> a[2] < 0
      [] b[1] = "inf" -> b[2] > 0
      [] OTHER -> NumerOf(a) * DenomOf(b) < NumerOf(b) * DenomOf(a)

\* a <= b, false when one side is NaN.
VLe(a, b) == a[1] # "nan" /\ b[1] # "nan" /\ ~VLt(b, a)

VAdd(a, b) ==
    CASE a[1] = "nan" \/ b[1] = "nan" -> NaN
      [] a[1] = "inf" /\ b[1] = "inf" -> IF a[2] = b[2] THEN a ELSE NaN
      [] a[1] = "inf" -> a
      [] b[1] = "inf" -> b
      [] OTHER -> Frac(NumerOf(a) * DenomOf(b) + NumerOf(b) * DenomOf(a),
                       DenomOf(a) * DenomOf(b))

VSub(a, b) == VAdd(a, VNeg(b))

VMul(a, b) ==
    CASE a[1] = "nan" \/ b[1] = "nan" -> NaN
      [] a[1] = "inf" \/ b[1] = "inf" ->
            IF VSgn(a) * VSgn(b) = 0 THEN NaN ELSE <<"inf", VSgn(a) * VSgn(b)>>
      [] OTHER -> Frac(NumerOf(a) * NumerOf(b), DenomOf(a) * DenomOf(b))

\* a / b on numpy floats: x / 0 is inf with the sign of x, 0 / 0 is NaN.
VDiv(a, b) ==
    CASE a[1] = "nan" \/ b[1] = "nan" -> NaN
      [] a[1] = "inf" /\ b[1] = "inf" -> NaN
      [] a[1] = "inf" -> <<"inf", IF VSgn(b) < 0 THEN -a[2] ELSE a[2]>>
      [] b[1] = "inf" -> Num(0)
      [] NumerOf(b) = 0 ->
            IF NumerOf(a) = 0 THEN NaN ELSE <<"inf", Sgn(NumerOf(a))>>
      [] OTHER -> Frac(NumerOf(a) * DenomOf(b) * Sgn(NumerOf(b)),
                       DenomOf(a) * Abs(NumerOf(b)))

\* Python's min(a, b) and max(a, b): the first argument unless the second
\* is strictly smaller (larger), so a NaN first argument is returned.
PyMin(a, b) == IF VLt(b, a) THEN b ELSE a

PyMax(a, b) == IF VLt(a, b) THEN b ELSE a

(* ------------------- return and risk statistics ------------------------ *)
(* A return series is a sequence of integers: daily returns in a unit u.   *)

\* The guard `abs(sum(returns_below)) < 1e-10` of calculate_omega_ratio, in
\* the unit of the return series (u = 5e-11).
OMEGA_EPS == 2

RECURSIVE InsertAsc(_, _)
InsertAsc(sorted, x) ==
    IF sorted = <<>> THEN <<x>>
    ELSE IF x < Head(sorted) THEN <<x>> \o sorted
    ELSE <<Head(sorted)>> \o InsertAsc(Tail(sorted), x)

RECURSIVE SortAsc(_)
SortAsc(s) == IF s = <<>> THEN <<>> ELSE InsertAsc(SortAsc(Tail(s)), Head(s))

\* np.percentile(a, q) of a non-empty series, q in percent: linear
\* interpolation between the two order statistics around q/100 * (n - 1).
Percentile(a, q) ==
    LET sorted == SortAsc(a)
        h == q * (Len(a) - 1)
        lo == h \div 100 + 1
        hi == IF lo < Len(a) THEN lo + 1 ELSE lo
    IN  Frac(100 * sorted[lo] + (h % 100) * (sorted[hi] - sorted[lo]), 100)

\* Mutant: the percentile itself, without abs.
calculate_var_signed(returns, confidence_level) ==
    IF Len(returns) = 0 THEN Num(0)
    ELSE Percentile(returns, 100 - confidence_level)

\* calculate_var(returns, confidence_level), the level in percent.
calculate_var(returns, confidence_level) ==
    IF Len(returns) = 0 THEN Num(0)
    ELSE VAbs(Percentile(returns, 100 - confidence_level))

\* returns[returns <= -var]
TailBelow(returns, var) ==
    LET InTail(r) == VLe(Num(r), VNeg(var)) IN SelectSeq(returns, InTail)

\* Mutant: the mean of the tail with its sign.
calculate_cvar_signed(returns, confidence_level) ==
    IF Len(returns) = 0 THEN Num(0)
    ELSE LET var == calculate_var(returns, confidence_level)
         IN  IF Len(TailBelow(returns, var)) > 0
             THEN Mean(TailBelow(returns, var))
             ELSE var

\* calculate_cvar(returns, confidence_level)
calculate_cvar(returns, confidence_level) ==
    IF Len(returns) = 0 THEN Num(0)
    ELSE LET var == calculate_var(returns, confidence_level)
         IN  IF Len(TailBelow(returns, var)) > 0
             THEN VAbs(Mean(TailBelow(returns, var)))
             ELSE var

\* calculate_ulcer_index(drawdowns): sqrt of the mean square, kept as the
\* fraction under the root.
calculate_ulcer_index(dd) ==
    IF Len(dd) = 0 THEN Num(0)
    ELSE IF SumProd(dd, dd) = 0 THEN Num(0)
    ELSE <<"sqrt", <<SumProd(dd, dd), Len(dd)>>>>

ReturnsAbove(returns, threshold) ==
    LET Above(r) == r > threshold IN SelectSeq(returns, Above)

ReturnsBelow(returns, threshold) ==
    LET Below(r) == r <= threshold IN SelectSeq(returns, Below)

\* Mutant: the ratio without abs around the sum of the losses.
calculate_omega_ratio_signed(returns) ==
    IF Len(returns) = 0 THEN Num(0)
    ELSE LET returns_above == ReturnsAbove(returns, 0)
             returns_below == ReturnsBelow(returns, 0)
         IN  IF Len(returns_below) = 0 \/ Abs(SumSeq(returns_below)) < OMEGA_EPS
             THEN (IF Len(returns_above) > 0 THEN Inf ELSE Num(0))
             ELSE VDiv(Num(SumSeq(returns_above)), Num(SumSeq(returns_below)))

\* calculate_omega_ratio(returns, threshold=0)
calculate_omega_ratio(returns) ==
    IF Len(returns) = 0 THEN Num(0)
    ELSE LET returns_above == ReturnsAbove(returns, 0)
             returns_below == ReturnsBelow(returns, 0)
         IN  IF Len(returns_below) = 0 \/ Abs(SumSeq(returns_below)) < OMEGA_EPS
             THEN (IF Len(returns_above) > 0 THEN Inf ELSE Num(0))
             ELSE VDiv(Num(SumSeq(returns_above)), Num(Abs(SumSeq(returns_below))))

\* calculate_tail_ratio(returns)
calculate_tail_ratio(returns) ==
    IF Len(returns) = 0 THEN Num(0)
    ELSE IF NumerOf(Percentile(returns, 5)) # 0
         THEN VAbs(VDiv(Percentile(returns, 95), Percentile(returns, 5)))
         ELSE Num(0)

\* Series.max() and Series.min(): NaN for an empty series.
SeriesMax(s) ==
    IF s = <<>> THEN NaN
    ELSE Num(CHOOSE x \in { s[k] : k \in 1..Len(s) } : \A k \in 1..Len(s) : s[k] <= x)

SeriesMin(s) ==
    IF s = <<>> THEN NaN
    ELSE Num(CHOOSE x \in { s[k] : k \in 1..Len(s) } : \A k \in 1..Len(s) : x <= s[k])

\* Series.skew(): NaN below three observations, 0 for a constant series,
\* else the exact sample skewness, not evaluated.
SeriesSkew(s) ==
    IF Len(s) < 3 THEN NaN
    ELSE IF VarNumer(s) = 0 THEN Num(0)
    ELSE <<"skew", s>>

\* Series.kurtosis(): NaN below four observations, 0 for a constant series.
SeriesKurtosis(s) ==
    IF Len(s) < 4 THEN NaN
    ELSE IF VarNumer(s) = 0 THEN Num(0)
    ELSE <<"kurtosis", s>>

\* The "return_stats" group of calculate_metrics.
ReturnStats(returns) ==
    LET up == ReturnsAbove(returns, 0)
        IsDown(r) == r < 0
        down == SelectSeq(returns, IsDown)
    IN  [best_day |-> SeriesMax(returns),
         worst_day |-> SeriesMin(returns),
         avg_up_day |-> IF Len(up) > 0 THEN Mean(up) ELSE Num(0),
         avg_down_day |-> IF Len(down) > 0 THEN Mean(down) ELSE Num(0),
         up_days |-> Num(Len(up)),
         down_days |-> Num(Len(down)),
         up_day_ratio |-> IF Len(returns) > 0 THEN Frac(Len(up), Len(returns))
                          ELSE Num(0)]

\* The "risk_metrics" group of calculate_metrics.
RiskMetrics(returns) ==
    [var_95 |-> calculate_var(returns, 95),
     cvar_95 |-> calculate_cvar(returns, 95),
     omega_ratio |-> calculate_omega_ratio(returns),
     tail_ratio |-> calculate_tail_ratio(returns),
     skew |-> SeriesSkew(returns),
     kurtosis |-> SeriesKurtosis(returns)]

(* ------------------------------ frames --------------------------------- *)
(* A DataFrame is its number of rows and its columns: col maps a column    *)
(* name to the cells of that column, first row first.  A cell is a float.  *)

Columns(df) == DOMAIN df.col

\* df[c].iloc[-k]: the cell k rows from the end (k = 1 is the latest row).
ILoc(df, c, k) == df.col[c][df.n - k + 1]

\* df[c].iloc[-k:]: the last k cells, all of them when there are fewer.
LastCells(df, c, k) ==
    IF df.n <= k THEN df.col[c] ELSE SubSeq(df.col[c], df.n - k + 1, df.n)

\* df.empty: no rows or no columns.
IsEmpty(df) == df.n = 0 \/ Columns(df) = {}

RECURSIVE CellSum(_)
CellSum(cells) == IF cells = <<>> THEN Num(0) ELSE VAdd(Head(cells), CellSum(Tail(cells)))

\* Series.mean(): missing cells are skipped; NaN when no cell is left.
CellMean(cells) ==
    LET Present(v) == v[1] # "nan"
        kept == SelectSeq(cells, Present)
    IN  IF kept = <<>> THEN NaN ELSE VDiv(CellSum(kept), Num(Len(kept)))

\* Series.min() and Series.max() over the cells that are not missing.
CellMin(cells) ==
    LET kept == { k \in 1..Len(cells) : cells[k][1] # "nan" }
    IN  IF kept = {} THEN NaN
        ELSE cells[CHOOSE k \in kept : \A j \in kept : VLe(cells[k], cells[j])]

CellMax(cells) ==
    LET kept == { k \in 1..Len(cells) : cells[k][1] # "nan" }
    IN  IF kept = {} THEN NaN
        ELSE cells[CHOOSE k \in kept : \A j \in kept : VLe(cells[j], cells[k])]

\* A dict without keys.
EmptyDict == [k \in {} |-> NaN]

KeyError(key) == Raise("KeyError: '" \o key \o "'")

\* The five price and volume columns.
OHLCV == {"open", "high", "low", "close", "volume"}

(* -------------------------- indicator engine --------------------------- *)
(* pandas_ta is the library behind the indicators.  A simple moving        *)
(* average is computed exactly.  What the other library calls return is    *)
(* the library's business: lib.cell is the value in their columns after    *)
(* lib.warmup missing rows, and lib.ok tells whether pd.concat accepts     *)
(* what ta.ichimoku returns (a pair of frames is rejected with TypeError). *)

\* The pattern columns: pattern_fields of pattern_score, in loop order, and
\* the columns add_pattern_recognition assigns.
PatternFields == <<"doji", "engulfing", "hammer", "shooting_star">>

\* Mutant: a check that does not ask for the volume column.
RequiredWithoutVolume == <<"open", "high", "low", "close">>

\* required = ['open', 'high', 'low', 'close', 'volume']
Required == <<"open", "high", "low", "close", "volume">>

\* [col for col in required if col not in result.columns]
MissingColumns(df) ==
    LET Absent(c) == c \notin Columns(df) IN SelectSeq(Required, Absent)

\* str(list of column names): "['open', 'close']"
RECURSIVE JoinQuoted(_)
JoinQuoted(names) ==
    IF names = <<>> THEN ""
    ELSE IF Len(names) = 1 THEN "'" \o names[1] \o "'"
    ELSE "'" \o names[1] \o "', " \o JoinQuoted(Tail(names))

MissingColumnsError(missing) ==
    "DataFrame missing required columns: [" \o JoinQuoted(missing) \o "]"

\* result[name] = cells: a new column, or new cells for a column present.
SetColumn(df, name, cells) == [df EXCEPT !.col = (name :> cells) @@ df.col]

\* Sum of the integers in cells[from..to], all of them "num" cells.
RECURSIVE NumSum(_, _, _)
NumSum(cells, from, to) ==
    IF from > to THEN 0
    ELSE IF from = to THEN cells[from][2]
    ELSE LET mid == (from + to) \div 2
         IN  NumSum(cells, from, mid) + NumSum(cells, mid + 1, to)

\* ta.sma(series, length): the mean of the last `length` cells; missing
\* while fewer are there, or while the window holds a cell that is no number.
Sma(cells, length) ==
    [i \in 1..Len(cells) |->
        IF i < length THEN NaN
        ELSE IF \E j \in (i - length + 1)..i : cells[j][1] # "num" THEN NaN
        ELSE Frac(NumSum(cells, i - length + 1, i), length)]

\* A column computed by the library: lib.warmup missing rows, then lib.cell.
LibColumn(n, lib) == [i \in 1..n |-> IF i <= lib.warmup THEN NaN ELSE lib.cell]

RECURSIVE AddLibColumns(_, _, _)
AddLibColumns(df, names, lib) ==
    IF names = <<>> THEN df
    ELSE AddLibColumns(SetColumn(df, Head(names), LibColumn(df.n, lib)), Tail(names), lib)

\* a / b, cell by cell.
DivCells(a, b) == [i \in 1..Len(a) |-> VDiv(a[i], b[i])]

\* The columns of the frames that ta.macd and ta.bbands return.
MacdColumns == <<"MACD_12_26_9", "MACDh_12_26_9", "MACDs_12_26_9">>

BbandsColumns == <<"BBL_20_2.0", "BBM_20_2.0", "BBU_20_2.0", "BBB_20_2.0", "BBP_20_2.0">>

\* TechnicalIndicators.add_basic_indicators(df): the frame with the basic
\* indicators, or the exception; computed tells whether an indicator was
\* computed before the function ended.
add_basic_indicators(df, lib) ==
    LET missing == MissingColumns(df)
    IN  IF missing # <<>>
        THEN Raise("ValueError: " \o MissingColumnsError(missing)) @@ [computed |-> FALSE]
        ELSE IF "volume" \notin Columns(df) THEN KeyError("volume") @@ [computed |-> TRUE]
        ELSE LET close_ == df.col["close"]
                 r1 == SetColumn(df, "sma20", Sma(close_, 20))
                 r2 == SetColumn(r1, "sma50", Sma(close_, 50))
                 r3 == SetColumn(r2, "sma200", Sma(close_, 200))
                 r4 == AddLibColumns(r3, <<"ema9", "ema21", "rsi14">>, lib)
                 r5 == AddLibColumns(r4, MacdColumns \o BbandsColumns, lib)
                 r6 == AddLibColumns(r5, <<"atr">>, lib)
                 r7 == SetColumn(r6, "volume_sma20", Sma(df.col["volume"], 20))
                 r8 == SetColumn(r7, "volume_ratio",
                                 DivCells(r7.col["volume"], r7.col["volume_sma20"]))
             IN  Ok(r8) @@ [computed |-> TRUE]

IchimokuColumns == <<"ISA_9", "ISB_26", "ITS_9", "IKS_26", "ICS_26">>

StochColumns == <<"STOCHk_14_3_3", "STOCHd_14_3_3">>

\* TechnicalIndicators.add_advanced_indicators(df)
add_advanced_indicators(df, lib) ==
    IF {"high", "low", "close"} \ Columns(df) # {} THEN KeyError("high")
    ELSE IF ~lib.ok
    THEN Raise("TypeError: cannot concatenate object of type '<class 'tuple'>'")
    ELSE IF "volume" \notin Columns(df) THEN KeyError("volume")
    ELSE LET r1 == AddLibColumns(df, IchimokuColumns, lib)
             r2 == AddLibColumns(r1, <<"psar">>, lib)
             r3 == AddLibColumns(r2, StochColumns, lib)
             r4 == AddLibColumns(r3, <<"cci", "obv", "ao">>, lib)
         IN  Ok(r4)

AdxColumns == <<"ADX_14", "DMP_14", "DMN_14">>

\* Series.shift(1): every cell one row later, the first row missing.
Shift(cells) == [i \in 1..Len(cells) |-> IF i = 1 THEN NaN ELSE cells[i - 1]]

\* np.where(cond, 1, 0) and np.where(cond, 1, -1), one cell.
Flag(cond) == IF cond THEN Num(1) ELSE Num(0)

\* Mutant: a golden cross flagged on every bar with sma50 above sma200.
GoldenCrossNoShift(sma50, sma200) ==
    [i \in 1..Len(sma50) |-> Flag(VLt(sma200[i], sma50[i]))]

\* (sma50 > sma200) & (sma50.shift(1) <= sma200.shift(1)), as 1 / 0
GoldenCross(sma50, sma200) ==
    [i \in 1..Len(sma50) |->
        Flag(VLt(sma200[i], sma50[i]) /\ VLe(Shift(sma50)[i], Shift(sma200)[i]))]

\* (sma50 < sma200) & (sma50.shift(1) >= sma200.shift(1)), as 1 / 0
DeathCross(sma50, sma200) ==
    [i \in 1..Len(sma50) |->
        Flag(VLt(sma50[i], sma200[i]) /\ VLe(Shift(sma200)[i], Shift(sma50)[i]))]

\* TechnicalIndicators.add_trend_indicators(df)
add_trend_indicators(df, lib) ==
    IF {"high", "low", "close"} \ Columns(df) # {} THEN KeyError("high")
    ELSE IF "sma20" \notin Columns(df) THEN KeyError("sma20")
    ELSE IF "sma50" \notin Columns(df) THEN KeyError("sma50")
    ELSE IF "sma200" \notin Columns(df) THEN KeyError("sma200")
    ELSE LET r1 == AddLibColumns(df, AdxColumns, lib)
             sma20 == df.col["sma20"]
             sma50 == df.col["sma50"]
             sma200 == df.col["sma200"]
             r2 == SetColumn(r1, "trend_sma",
                       [i \in 1..df.n |->
                           IF VLt(sma50[i], sma20[i]) THEN Num(1)
                           ELSE IF VLt(sma20[i], sma50[i]) THEN Num(-1)
                           ELSE Num(0)])
             r3 == SetColumn(r2, "price_vs_sma200",
                       [i \in 1..df.n |->
                           IF VLt(sma200[i], df.col["close"][i]) THEN Num(1)
                           ELSE Num(-1)])
             r4 == SetColumn(r3, "golden_cross", GoldenCross(sma50, sma200))
             r5 == SetColumn(r4, "death_cross", DeathCross(sma50, sma200))
         IN  Ok(r5)

\* TechnicalIndicators.add_pattern_recognition(df)
add_pattern_recognition(df, lib) ==
    IF {"open", "high", "low", "close"} \ Columns(df) # {} THEN KeyError("open")
    ELSE Ok(AddLibColumns(df, PatternFields, lib))

\* Mutant: the normalisation that only fills the missing cells.
NormalizeFillOnly(df) ==
    [df EXCEPT !.col = [c \in Columns(df) |->
        [i \in 1..df.n |-> IF df.col[c][i][1] = "nan" THEN Num(0) ELSE df.col[c][i]]]]

\* result.replace([np.inf, -np.inf], np.nan).fillna(0)
Normalize(df) ==
    [df EXCEPT !.col = [c \in Columns(df) |->
        [i \in 1..df.n |-> IF IsFinite(df.col[c][i]) THEN df.col[c][i] ELSE Num(0)]]]

\* The frame of calculate_all_indicators before lines 163-164, or the
\* exception of the first step that raises.
AllIndicatorsRaw(df, lib) ==
    LET basic == add_basic_indicators(df, lib)
    IN  IF basic.raised THEN basic
        ELSE LET advanced == add_advanced_indicators(basic.value, lib)
             IN  IF advanced.raised THEN advanced @@ [computed |-> TRUE]
                 ELSE LET trend == add_trend_indicators(advanced.value, lib)
                      IN  IF trend.raised THEN trend @@ [computed |-> TRUE]
                          ELSE add_pattern_recognition(trend.value, lib)
                                   @@ [computed |-> TRUE]

\* TechnicalIndicators.calculate_all_indicators(df)
calculate_all_indicators(df, lib) ==
    LET raw == AllIndicatorsRaw(df, lib)
    IN  IF raw.raised THEN raw ELSE [raw EXCEPT !.value = Normalize(raw.value)]

(* ------------------------------ scoring -------------------------------- *)

\* periods=(5, 10, 20, 60)
MomentumPeriods == {5, 10, 20, 60}

MomentumKey(period) ==
    CASE period = 5 -> "momentum_5d"
      [] period = 10 -> "momentum_10d"
      [] period = 20 -> "momentum_20d"
      [] period = 60 -> "momentum_60d"

\* (df['close'].iloc[-1] / df['close'].iloc[-period-1] - 1) * 100
PctChange(df, period) ==
    VMul(VSub(VDiv(ILoc(df, "close", 1), ILoc(df, "close", period + 1)), Num(1)), Num(100))

RECURSIVE SumOver(_, _, _)
SumOver(df, periods, acc) ==
    IF periods = {} THEN acc
    ELSE LET period == CHOOSE x \in periods : \A y \in periods : x <= y
         IN  SumOver(df, periods \ {period}, VAdd(acc, PctChange(df, period)))

\* StockScoring.momentum_score(df)
momentum_score(df) ==
    LET used == { period \in MomentumPeriods : df.n > period }
        momentum_scores ==
            [k \in { MomentumKey(period) : period \in used } |->
                PctChange(df, CHOOSE period \in used : MomentumKey(period) = k)]
    IN  IF used = {} THEN Ok(EmptyDict)
        ELSE IF "close" \notin Columns(df) THEN KeyError("close")
        ELSE Ok(momentum_scores @@
                ("momentum_overall" :>
                    VDiv(SumOver(df, used, Num(0)), Num(Cardinality(used)))))

\* latest[a] > latest[b]
LatestGt(df, a, b) == VLt(ILoc(df, b, 1), ILoc(df, a, 1))

\* +1 when the comparison holds, -1 otherwise.
Vote(holds) == IF holds THEN 1 ELSE -1

\* The SMA alignment of trend_score (lines 54-66).
SmaAlignment(df) ==
    (IF {"sma20", "sma50"} \subseteq Columns(df)
     THEN Vote(LatestGt(df, "sma20", "sma50")) ELSE 0)
    + (IF {"sma50", "sma200"} \subseteq Columns(df)
       THEN Vote(LatestGt(df, "sma50", "sma200")) ELSE 0)

\* The price position of trend_score (lines 69-80).
PriceVsMa(df) ==
    (IF "sma20" \in Columns(df) THEN Vote(LatestGt(df, "close", "sma20")) ELSE 0)
    + (IF "sma200" \in Columns(df) THEN Vote(LatestGt(df, "close", "sma200")) ELSE 0)

\* The ADX tier of trend_score (lines 83-91).
AdxScore(df) ==
    IF "ADX_14" \notin Columns(df) THEN 0
    ELSE IF VLt(Num(30), ILoc(df, "ADX_14", 1)) THEN 2
    ELSE IF VLt(Num(20), ILoc(df, "ADX_14", 1)) THEN 1
    ELSE 0

\* ((sma_alignment / 2) * 30 + (price_vs_ma / 2) * 30 + adx_score * 40) / 100
TrendFormula(sma_alignment, price_vs_ma, adx_score) ==
    Frac(15 * sma_alignment + 15 * price_vs_ma + 40 * adx_score, 100)

\* StockScoring.trend_score(df)
trend_score(df) ==
    IF df.n < 50 THEN Ok([trend_score |-> Num(0)])
    ELSE IF Columns(df) \cap {"sma20", "sma200"} # {} /\ "close" \notin Columns(df)
    THEN KeyError("close")
    ELSE Ok([trend_score |->
                TrendFormula(SmaAlignment(df), PriceVsMa(df), AdxScore(df))])

\* StockScoring.volatility_score(df, window=20)
volatility_score(df) ==
    IF df.n < 20 \/ "atr" \notin Columns(df) THEN Ok([volatility_score |-> Num(0)])
    ELSE IF "close" \notin Columns(df) THEN KeyError("close")
    ELSE LET atr_pct == VMul(VDiv(ILoc(df, "atr", 1), ILoc(df, "close", 1)), Num(100))
         IN  Ok([volatility_score |-> PyMin(VDiv(atr_pct, Num(5)), Num(1))])

\* StockScoring.volume_score(df, window=20)
volume_score(df) ==
    IF df.n < 20 THEN Ok([volume_score |-> Num(0)])
    ELSE IF "volume" \notin Columns(df) THEN KeyError("volume")
    ELSE LET recent_vol_avg == CellMean(LastCells(df, "volume", 5))
             window_vol_avg == CellMean(LastCells(df, "volume", 20))
             vol_ratio == VDiv(recent_vol_avg, window_vol_avg)
         IN  Ok([volume_score |-> PyMin(VDiv(vol_ratio, Num(2)), Num(1))])

\* The signal labels of oscillator_score.
RsiSignal(rsi) ==
    IF VLt(rsi, Num(30)) THEN "oversold"
    ELSE IF VLt(Num(70), rsi) THEN "overbought"
    ELSE "neutral"

StochSignal(stoch_k, stoch_d) ==
    IF VLt(stoch_k, Num(20)) /\ VLt(stoch_d, Num(20)) THEN "oversold"
    ELSE IF VLt(Num(80), stoch_k) /\ VLt(Num(80), stoch_d) THEN "overbought"
    ELSE "neutral"

\* 0.8 for oversold (bullish), 0.2 for overbought (bearish), else 0.5.
SignalScore(label) ==
    CASE label = "oversold" -> Frac(4, 5)
      [] label = "overbought" -> Frac(1, 5)
      [] OTHER -> Frac(1, 2)

\* StockScoring.oscillator_score(df)
oscillator_score(df) ==
    IF df.n < 14 \/ "rsi14" \notin Columns(df)
    THEN Ok([oscillator_score |-> Frac(1, 2), signals |-> EmptyDict])
    ELSE LET rsi_label == RsiSignal(ILoc(df, "rsi14", 1))
             has_stoch == {"STOCHk_14_3_3", "STOCHd_14_3_3"} \subseteq Columns(df)
             stoch_label == StochSignal(ILoc(df, "STOCHk_14_3_3", 1),
                                        ILoc(df, "STOCHd_14_3_3", 1))
             stoch_score == IF has_stoch THEN SignalScore(stoch_label) ELSE Frac(1, 2)
         IN  Ok([oscillator_score |->
                    VDiv(VAdd(SignalScore(rsi_label), stoch_score), Num(2)),
                 signals |-> IF has_stoch
                             THEN [k \in {"rsi", "stoch"} |->
                                      IF k = "rsi" THEN rsi_label ELSE stoch_label]
                             ELSE [k \in {"rsi"} |-> rsi_label]])

\* The <<field, value>> pairs that the two loops of pattern_score collect:
\* rows -1, -2, -3, and for each row the fields present and not equal to 0.
PatternHits(df) ==
    LET last == IF df.n < 4 THEN df.n - 1 ELSE 3
        visit == [j \in 1..(last * 4) |->
                     [i |-> (j - 1) \div 4 + 1, field |-> PatternFields[((j - 1) % 4) + 1]]]
        Hit(v) == /\ v.field \in Columns(df)
                  /\ ILoc(df, v.field, v.i) # Num(0)
        hits == SelectSeq(visit, Hit)
    IN  [j \in 1..Len(hits) |-> <<hits[j].field, ILoc(df, hits[j].field, hits[j].i)>>]

\* StockScoring.pattern_score(df)
pattern_score(df) ==
    IF df.n < 5 THEN Ok([pattern_score |-> Frac(1, 2), patterns |-> <<>>])
    ELSE LET patterns == PatternHits(df)
             count == Len(patterns)
             pattern_value == CellSum([j \in 1..count |-> patterns[j][2]])
             normalized_score ==
                 VAdd(Frac(1, 2), VDiv(pattern_value, Num(count * 2)))
         IN  Ok([pattern_score |->
                    IF count > 0 THEN PyMax(Num(0), PyMin(Num(1), normalized_score))
                    ELSE Frac(1, 2),
                 patterns |-> patterns])

\* The weights of calculate_overall_score, in percent.
Weights ==
    [momentum |-> 25, trend |-> 30, volatility |-> 10, volume |-> 10,
     oscillator |-> 15, pattern |-> 10]

ComponentNames == <<"momentum", "trend", "volatility", "volume", "oscillator", "pattern">>

\* The component function behind each name.
Component(name, df) ==
    CASE name = "momentum" -> momentum_score(df)
      [] name = "trend" -> trend_score(df)
      [] name = "volatility" -> volatility_score(df)
      [] name = "volume" -> volume_score(df)
      [] name = "oscillator" -> oscillator_score(df)
      [] name = "pattern" -> pattern_score(df)

\* dict.get(key, default)
GetOr(dict, key, default) == IF key \in DOMAIN dict THEN dict[key] ELSE default

\* score_components of calculate_overall_score (lines 274-286).
ScoreComponents(momentum, trend, volatility, volume, oscillator, pattern) ==
    [momentum |-> IF "momentum_overall" \in DOMAIN momentum
                  THEN PyMax(Num(0), PyMin(Num(1),
                           VDiv(VAdd(momentum["momentum_overall"], Num(10)), Num(20))))
                  ELSE Frac(1, 2),
     trend |-> GetOr(trend, "trend_score", Frac(1, 2)),
     volatility |-> VSub(Num(1), GetOr(volatility, "volatility_score", Frac(1, 2))),
     volume |-> GetOr(volume, "volume_score", Frac(1, 2)),
     oscillator |-> GetOr(oscillator, "oscillator_score", Frac(1, 2)),
     pattern |-> GetOr(pattern, "pattern_score", Frac(1, 2))]

\* sum(score_components[k] * weights[k] for k in weights)
RECURSIVE WeightedSum(_, _)
WeightedSum(score_components, k) ==
    IF k > Len(ComponentNames) THEN Num(0)
    ELSE VAdd(VMul(score_components[ComponentNames[k]],
                   Frac(Weights[ComponentNames[k]], 100)),
              WeightedSum(score_components, k + 1))

\* Mutant: a score of exactly 70 is a buy, of exactly 30 a sell.
SignalOfInclusive(overall_score) ==
    IF VLe(Num(70), overall_score) THEN "buy"
    ELSE IF VLe(overall_score, Num(30)) THEN "sell"
    ELSE "neutral"

\* Lines 294-298: the signal of an overall score.
SignalOf(overall_score) ==
    IF VLt(Num(70), overall_score) THEN "buy"
    ELSE IF VLt(overall_score, Num(30)) THEN "sell"
    ELSE "neutral"

\* The component functions that calculate_overall_score invokes, in order,
\* up to and including the first one that raises.
RECURSIVE Invoked(_, _)
Invoked(df, k) ==
    IF k > Len(ComponentNames) THEN <<>>
    ELSE IF Component(ComponentNames[k], df).raised THEN <<ComponentNames[k]>>
    ELSE <<ComponentNames[k]>> \o Invoked(df, k + 1)

\* Mutant: 59 rows are enough.
TooShortBelow59(df) == df.n < 59

\* len(df) < 60
TooShort(df) == df.n < 60

\* StockScoring.calculate_overall_score(df): the result (or the exception)
\* and, under calls, the component functions invoked.
calculate_overall_score(df) ==
    IF IsEmpty(df)
    THEN Ok([overall_score |-> Num(0), error |-> "Invalid or empty dataframe"])
             @@ [calls |-> <<>>]
    ELSE IF TooShort(df)
    THEN Ok([overall_score |-> Num(0), error |-> "Insufficient data points"])
             @@ [calls |-> <<>>]
    ELSE LET calls == Invoked(df, 1)
             failed == Component(calls[Len(calls)], df)
         IN  IF failed.raised THEN Raise(failed.error) @@ [calls |-> calls]
             ELSE LET momentum == momentum_score(df).value
                      trend == trend_score(df).value
                      volatility == volatility_score(df).value
                      volume == volume_score(df).value
                      oscillator == oscillator_score(df).value
                      pattern == pattern_score(df).value
                      score_components == ScoreComponents(momentum, trend, volatility,
                                                          volume, oscillator, pattern)
                      overall_score == VMul(WeightedSum(score_components, 1), Num(100))
                  IN  Ok([overall_score |-> overall_score,
                          signal |-> SignalOf(overall_score),
                          components |->
                              [momentum |-> momentum, trend |-> trend,
                               volatility |-> volatility, volume |-> volume,
                               oscillator |-> oscillator, pattern |-> pattern],
                          component_scores |-> score_components])
                      @@ [calls |-> calls]

\* round(v, 2): to the nearest hundredth, a tie to the even one.
Round2(v) ==
    IF ~IsFinite(v) THEN v
    ELSE LET scaled == 100 * NumerOf(v)
             q == scaled \div DenomOf(v)
             r == scaled % DenomOf(v)
             up == 2 * r > DenomOf(v) \/ (2 * r = DenomOf(v) /\ q % 2 = 1)
         IN  Frac(IF up THEN q + 1 ELSE q, 100)

\* sorted(levels)
RECURSIVE InsertLevel(_, _)
InsertLevel(sorted, x) ==
    IF sorted = <<>> THEN <<x>>
    ELSE IF VLt(x, Head(sorted)) THEN <<x>> \o sorted
    ELSE <<Head(sorted)>> \o InsertLevel(Tail(sorted), x)

RECURSIVE SortLevels(_)
SortLevels(levels) ==
    IF levels = <<>> THEN <<>>
    ELSE InsertLevel(SortLevels(SubSeq(levels, 1, Len(levels) - 1)), levels[Len(levels)])

\* latest.get(name, None)
LatestOrNone(df, name) == IF name \in Columns(df) THEN ILoc(df, name, 1) ELSE <<"none", 0>>

\* The columns that generate_report reads without asking, in reading order.
ReportReads == <<"close", "low", "high", "open", "volume">>

\* if 'sma20' not in df.columns: df = calculate_all_indicators(df)
EnsureIndicators(frame, lib) ==
    IF "sma20" \notin Columns(frame) THEN calculate_all_indicators(frame, lib)
    ELSE Ok(frame)

\* score_data = StockScoring.calculate_overall_score(df), if df is there.
ScoreOn(indicators) ==
    IF indicators.raised THEN indicators ELSE calculate_overall_score(indicators.value)

\* generate_report from line 336 on, given the outcomes of lines 330-334.
ReportOn(indicators, scoring, symbol) ==
        IF indicators.raised THEN Raise(indicators.error)
        ELSE LET df == indicators.value
                 score_data == scoring.value
                 Unread(c) == c \notin Columns(df)
                 unread == SelectSeq(ReportReads, Unread)
             IN  IF scoring.raised THEN Raise(scoring.error)
                 ELSE IF df.n = 0
                 THEN Raise("IndexError: single positional indexer is out-of-bounds")
                 ELSE IF unread # <<>> THEN KeyError(unread[1])
                 ELSE IF "signal" \notin DOMAIN score_data THEN KeyError("signal")
                 ELSE LET prev == IF df.n > 1 THEN 2 ELSE 1
                          daily_change ==
                              VMul(VDiv(VSub(ILoc(df, "close", 1), ILoc(df, "close", prev)),
                                        ILoc(df, "close", prev)), Num(100))
                          support_levels ==
                              <<Round2(CellMin(LastCells(df, "low", 20)))>>
                              \o (IF "sma50" \in Columns(df)
                                  THEN <<Round2(ILoc(df, "sma50", 1))>> ELSE <<>>)
                              \o (IF "sma200" \in Columns(df)
                                  THEN <<Round2(ILoc(df, "sma200", 1))>> ELSE <<>>)
                          resistance_levels ==
                              <<Round2(CellMax(LastCells(df, "high", 20)))>>
                          oscillator == score_data.components.oscillator
                          pattern == score_data.components.pattern
                      IN  Ok([symbol |-> symbol,
                              date |-> df.n,
                              price |-> [open |-> ILoc(df, "open", 1),
                                         high |-> ILoc(df, "high", 1),
                                         low |-> ILoc(df, "low", 1),
                                         close |-> ILoc(df, "close", 1),
                                         volume |-> ILoc(df, "volume", 1),
                                         daily_change |-> daily_change],
                              score |-> score_data.overall_score,
                              signal |-> score_data.signal,
                              key_levels |-> [support |-> SortLevels(support_levels),
                                              resistance |-> SortLevels(resistance_levels)],
                              indicators |->
                                  [sma20 |-> LatestOrNone(df, "sma20"),
                                   sma50 |-> LatestOrNone(df, "sma50"),
                                   sma200 |-> LatestOrNone(df, "sma200"),
                                   rsi |-> LatestOrNone(df, "rsi14"),
                                   macd |-> LatestOrNone(df, "MACD_12_26_9"),
                                   macd_signal |-> LatestOrNone(df, "MACDs_12_26_9")],
                              component_scores |-> score_data.component_scores,
                              signals |->
                                  (IF "patterns" \in DOMAIN pattern
                                   THEN "patterns" :> pattern.patterns ELSE EmptyDict)
                                  @@ (IF "signals" \in DOMAIN oscillator
                                      THEN oscillator.signals ELSE EmptyDict)])

\* StockScoring.generate_report(df, symbol): the report, or the exception;
\* the indicators and the scores are computed once.
generate_report(frame, symbol, lib) ==
    CHOOSE r \in { ReportOn(done[1], done[2], symbol) :
                      done \in { <<indicators, ScoreOn(indicators)>> :
                                    indicators \in { EnsureIndicators(frame, lib) } } } : TRUE

(* ------------------------------ state ---------------------------------- *)

VARIABLES
    today,              \* datetime.now(), as <<year, month, day>>
    slice_ok,           \* whether portfolio.slice(...).total_return() succeeds
    sim_pc,             \* bar-by-bar simulation: "off", "bars", "metrics"
    pf,                 \* the strategy's portfolio so far
    benchmark_pf,       \* the Buy & Hold portfolio over the same bars
    entries,            \* the strategy's entry signals so far
    exits,              \* the strategy's exit signals so far
    sim_metrics,        \* calculate_metrics(pf, ...) once the series ended
    per_pc,             \* period-return call: "off", "call", "done"
    period,             \* its period label
    period_return,      \* its outcome
    bt_pc,              \* backtest_node and evaluate_node: "off", "start", "loop",
                        \* "raised", "returned", "evaluated"
    close,              \* df['close']
    strategies,         \* state["strategies"]
    loop_idx,           \* position of the for loop in the strategy list
    results,            \* the results dict
    benchmark_metrics,  \* calculate_metrics(benchmark_pf, "Buy & Hold")
    evaluation,         \* what evaluate_node returned or raised
    rel_pc,             \* beta / information ratio call: "off", "call", "done"
    strategy_returns,
    benchmark_returns,
    beta,
    information_ratio

VARIABLES
    risk_pc,            \* return / risk statistics call: "off", "call", "done"
    returns,            \* portfolio.returns()
    drawdowns,          \* portfolio.drawdown()
    return_stats,       \* the "return_stats" group
    risk_metrics,       \* the "risk_metrics" group
    ulcer_index         \* calculate_ulcer_index(drawdowns)

VARIABLES
    df,                 \* the caller's DataFrame
    lib,                \* what the indicator library does in this run
    ind_pc,             \* indicator engine: "off", "call", "trend", "done"
    ind_out,            \* what the indicator call returned or raised
    score_pc,           \* scoring engine: "off", "call", "scored", "reported"
    score_out,          \* what calculate_overall_score returned or raised
    report              \* what generate_report returned or raised

VARIABLES
    pipe_pc,            \* graph.invoke: "off", "ready", "running", "ended", "raised"
    pipe_node,          \* the node the run is at
    executed,           \* the nodes that ran to completion, in order
    pipe_state,         \* the state dict handed from node to node
    fetched,            \* the close prices the data source delivers in this run
    response,           \* the strategies the LLM answers with in this run
    channels            \* how the graph library applies a node's return value

envVars == <<today, slice_ok>>

pipeVars == <<pipe_pc, pipe_node, executed, pipe_state, fetched, response, channels>>

simVars == <<sim_pc, pf, benchmark_pf, entries, exits, sim_metrics>>

perVars == <<per_pc, period, period_return>>

relVars == <<rel_pc, strategy_returns, benchmark_returns, beta, information_ratio>>

btVars == <<bt_pc, close, strategies, loop_idx, results, benchmark_metrics, evaluation>>

riskVars == <<risk_pc, returns, drawdowns, return_stats, risk_metrics, ulcer_index>>

\* The variables of the statistics, indicator and scoring engines.
indVars == <<df, lib, ind_pc, ind_out>>

scoreVars == <<score_pc, score_out, report>>

engineVars == <<riskVars, indVars, scoreVars>>

\* The variables of the backtest side.
backtestVars == <<simVars, perVars, relVars, btVars>>

vars == <<envVars, backtestVars, engineVars, pipeVars>>

\* Wall-clock dates of the simulated runs: an ordinary day, and a month end
\* whose day does not exist one month earlier.
RunDates == { <<2024, 6, 15>>, <<2024, 3, 31>> }

\* The bar-by-bar runs are taken on an ordinary day.
OrdinaryDay == <<2024, 6, 15>>

SimOff ==
    /\ sim_pc = "off"
    /\ pf = NewPortfolio(SignalsCfg)
    /\ benchmark_pf = NewPortfolio(HoldingCfg)
    /\ entries = <<>>
    /\ exits = <<>>
    /\ sim_metrics = Raise("not computed")

PerOff == per_pc = "off" /\ period = "" /\ period_return = Raise("not computed")

RelOff ==
    /\ rel_pc = "off"
    /\ strategy_returns = <<>>
    /\ benchmark_returns = <<>>
    /\ beta = NaN
    /\ information_ratio = NaN

BtOff ==
    /\ bt_pc = "off"
    /\ close = <<>>
    /\ strategies = <<>>
    /\ loop_idx = 0
    /\ results = <<>>
    /\ benchmark_metrics = Raise("not computed")
    /\ evaluation = Raise("not computed")

RiskOff ==
    /\ risk_pc = "off"
    /\ returns = <<>>
    /\ drawdowns = <<>>
    /\ return_stats = ReturnStats(<<>>)
    /\ risk_metrics = RiskMetrics(<<>>)
    /\ ulcer_index = Num(0)

\* A frame without rows or columns.
NoFrame == [n |-> 0, col |-> EmptyDict]

\* A library that computes nothing.
NoLib == [ok |-> FALSE, warmup |-> 0, cell |-> NaN]

IndOff ==
    /\ ind_pc = "off"
    /\ ind_out = Raise("not computed")

ScoreOff ==
    /\ score_pc = "off"
    /\ score_out = Raise("not computed")
    /\ report = Raise("not computed")

FrameOff == df = NoFrame /\ lib = NoLib

\* No state dict: graph.invoke was not called.
NoState == [k \in {} |-> ""]

PipeOff ==
    /\ pipe_pc = "off"
    /\ pipe_node = ""
    /\ executed = <<>>
    /\ pipe_state = NoState
    /\ fetched = <<>>
    /\ response = <<>>
    /\ channels = ""

EngineOff == RiskOff /\ FrameOff /\ IndOff /\ ScoreOff

BacktestOff == SimOff /\ PerOff /\ RelOff /\ BtOff

(* ------------------ the simulation, one bar at a time ------------------ *)

SimInit ==
    /\ today = OrdinaryDay
    /\ slice_ok \in BOOLEAN
    /\ sim_pc = "bars"
    /\ pf = NewPortfolio(SignalsCfg)
    /\ benchmark_pf = NewPortfolio(HoldingCfg)
    /\ entries = <<>>
    /\ exits = <<>>
    /\ sim_metrics = Raise("not computed")
    /\ PerOff /\ RelOff /\ BtOff /\ EngineOff /\ PipeOff

\* The next bar of df['close'] with the strategy's two signals on it: both
\* portfolios (lines 22 and 29-37 of backtest_node) process it.
SimStep ==
    /\ sim_pc = "bars"
    /\ Len(pf.close) < NBars
    /\ \E price \in 1..MaxPrice, entry \in BOOLEAN, exit \in BOOLEAN :
        LET idx == Len(pf.close)
        IN  /\ pf' = SimBar(pf, idx, price, entry, exit)
            /\ benchmark_pf' = SimBar(benchmark_pf, idx, price,
                                      HoldingEntry(idx), HoldingExit(idx))
            /\ entries' = Append(entries, entry)
            /\ exits' = Append(exits, exit)
    /\ UNCHANGED <<sim_pc, sim_metrics, envVars, pipeVars, engineVars, perVars, relVars, btVars>>

\* The series has ended: calculate_metrics(pf, strat["name"]).
SimMetrics ==
    /\ sim_pc = "bars"
    /\ Len(pf.close) >= 1
    /\ sim_metrics' = calculate_metrics(pf, "S", today, slice_ok)
    /\ sim_pc' = "metrics"
    /\ UNCHANGED <<pf, benchmark_pf, entries, exits, envVars, pipeVars, engineVars, perVars, relVars, btVars>>

SimNext == SimStep \/ SimMetrics

SpecSim == SimInit /\ [][SimNext]_vars

(* ------------------- properties of the simulation ---------------------- *)

\* The step just taken processed a bar.
BarProcessed == Len(pf'.close) = Len(pf.close) + 1

LastEntry == entries'[Len(entries')]

LastExit == exits'[Len(exits')]

\* Position, cash, shares and both ledgers are as before the bar.
BookUnchanged ==
    /\ pf'.position = pf.position
    /\ pf'.cash = pf.cash
    /\ pf'.shares = pf.shares
    /\ pf'.orders = pf.orders
    /\ pf'.trades = pf.trades

\* Orders start with a buy and alternate buy, sell, buy, ...
Alternates(orders) ==
    \A k \in 1..Len(orders) : orders[k].side = (IF k % 2 = 1 THEN "buy" ELSE "sell")

Opens(portfolio) ==
    Cardinality({ k \in 1..Len(portfolio.orders) : portfolio.orders[k].side = "buy" })

\* The position is flat or long, and is long exactly when the last order is a buy.
TwoStateMachine(portfolio) ==
    /\ portfolio.position \in {"flat", "long"}
    /\ portfolio.position = "long" <=> (Len(portfolio.orders) % 2 = 1)
    /\ Alternates(portfolio.orders)
    /\ Len(portfolio.trades) <= Opens(portfolio)
    /\ Len(portfolio.trades) = Len(portfolio.orders) \div 2

\* C4: the simulated position is a flat/long machine that starts flat; an
\* entries=true bar while long, and an exits=true bar while flat, leave
\* position, cash and ledger unchanged; opens and closes alternate and the
\* closed trades never outnumber the opens.
C4_SignalsAreNoOps ==
    /\ (pf.close = <<>> => pf.position = "flat" /\ pf.orders = <<>>)
    /\ TwoStateMachine(pf)
    /\ [][BarProcessed =>
            /\ (pf.position = "long" /\ LastEntry => BookUnchanged)
            /\ (pf.position = "flat" /\ LastExit => BookUnchanged)
            /\ TwoStateMachine(pf')]_vars

\* C4 witness: an exit signal arrived while flat (bar 0), the entry on bar 1
\* opened the position, and the entry signal on bar 2 arrived while long: the
\* ledger holds the one buy order of bar 1.
C4_Witness ==
    /\ entries = <<FALSE, TRUE, TRUE>>
    /\ exits = <<TRUE, FALSE, FALSE>>
    /\ pf.position = "long"
    /\ pf.orders = <<[idx |-> 1, side |-> "buy", price |-> pf.close[2]]>>
    /\ pf.trades = <<>>

\* C5 as claimed: with both signals on a bar while flat, a long position is
\* opened on that bar and stays open on it.
C5_EntryTakesPriority ==
    [][BarProcessed /\ pf.position = "flat" /\ LastEntry /\ LastExit =>
          /\ pf'.position = "long"
          /\ Len(pf'.orders) = Len(pf.orders) + 1
          /\ pf'.orders[Len(pf'.orders)].side = "buy"]_vars

\* C5 amended: with both signals on a bar while flat, both are ignored: no
\* position is opened on that bar and cash and ledger stay as they were; a
\* flat portfolio goes long only on a bar with entries true and exits false.
C5_ConflictIgnored ==
    [][BarProcessed =>
          /\ (pf.position = "flat" /\ LastEntry /\ LastExit => BookUnchanged)
          /\ (pf.position = "flat" /\ pf'.position = "long" => LastEntry /\ ~LastExit)]_vars

\* C5 witness: both signals on bar 0 left the portfolio flat, and the entry
\* alone on bar 1 opened the position.
C5_Witness ==
    /\ entries = <<TRUE, TRUE>>
    /\ exits = <<TRUE, FALSE>>
    /\ pf.position = "long"
    /\ pf.orders = <<[idx |-> 1, side |-> "buy", price |-> pf.close[2]]>>

\* C6: the benchmark buys on bar 0, is long on every bar through the last,
\* and makes no other transaction, whatever the prices and whatever the
\* strategy's signals are.
C6_BenchmarkBuyAndHold ==
    Len(benchmark_pf.close) >= 1 =>
        /\ benchmark_pf.position = "long"
        /\ benchmark_pf.orders =
               <<[idx |-> 0, side |-> "buy", price |-> benchmark_pf.close[1]]>>
        /\ benchmark_pf.trades = <<>>
        /\ benchmark_pf.cash = ZeroQ
        /\ benchmark_pf.close = pf.close

\* C6 witness: the last bar is reached with the benchmark long while the
\* strategy traded a round trip on the same bars.
C6_Witness ==
    /\ Len(benchmark_pf.close) = NBars
    /\ benchmark_pf.position = "long"
    /\ Len(pf.trades) = 1
    /\ benchmark_pf.close[1] # benchmark_pf.close[NBars]

\* C8 as claimed: with entries all false, calculate_metrics completes and
\* reports 0 for total return, trade count, win rate, profit factor, every
\* trade average and the extreme trade profit and loss.
C8_ZeroTradesReportZero ==
    (sim_pc = "metrics" /\ \A k \in 1..Len(entries) : ~entries[k]) =>
        /\ ~sim_metrics.raised
        /\ sim_metrics.value.total_return = Num(0)
        /\ sim_metrics.value.trades.total_trades = Num(0)
        /\ sim_metrics.value.win_rate = Num(0)
        /\ sim_metrics.value.profit_factor = Num(0)
        /\ sim_metrics.value.trades.avg_win = Num(0)
        /\ sim_metrics.value.trades.avg_loss = Num(0)
        /\ sim_metrics.value.trades.avg_duration = Num(0)
        /\ sim_metrics.value.trades.max_trade_profit = Num(0)
        /\ sim_metrics.value.trades.max_trade_loss = Num(0)

(* ------------------ backtest_node, then evaluate_node ------------------ *)

SeqsUpTo(S, n) == UNION { [1..k -> S] : k \in 0..n }

\* Price series of the batch runs: two bars.
BatchCloses == [1..2 -> 1..MaxPrice]

StrategyNames == {"A", "B", "benchmark"}

\* Entry signals over n bars: never, on the first bar, or a series one bar
\* short of the price series.
EntrySignals(n) ==
    { [k \in 1..n |-> FALSE], [k \in 1..n |-> k = 1], [k \in 1..(n - 1) |-> FALSE] }

\* Exit signals over n bars: never, or on the last bar.
ExitSignals(n) == { [k \in 1..n |-> FALSE], [k \in 1..n |-> k = n] }

StrategyPool(n) ==
    { [name |-> nm, entries |-> en, exits |-> ex] :
        nm \in StrategyNames, en \in EntrySignals(n), ex \in ExitSignals(n) }

BtInit ==
    /\ today \in RunDates
    /\ slice_ok \in BOOLEAN
    /\ bt_pc = "start"
    /\ close \in BatchCloses
    /\ strategies = <<>>
    /\ loop_idx = 0
    /\ results = <<>>
    /\ benchmark_metrics = Raise("not computed")
    /\ evaluation = Raise("not computed")
    /\ SimOff /\ PerOff /\ RelOff /\ EngineOff /\ PipeOff

\* backtest_node, lines 17-23: the strategies are parsed and the benchmark
\* portfolio and its metrics are computed, outside any try block.
BacktestStart ==
    /\ bt_pc = "start"
    /\ \E raw \in SeqsUpTo(StrategyPool(Len(close)), MaxStrategies) :
           strategies' = parse_strategies(raw)
    /\ results' = <<>>
    /\ LET benchmark == FromHolding(close)
       IN  IF benchmark.raised
           THEN benchmark_metrics' = Raise(benchmark.error)
           ELSE benchmark_metrics' =
                    calculate_metrics(benchmark.value, "Buy & Hold", today, slice_ok)
    /\ bt_pc' = IF benchmark_metrics'.raised THEN "raised" ELSE "loop"
    /\ loop_idx' = 1
    /\ UNCHANGED <<close, evaluation, envVars, pipeVars, engineVars, simVars, perVars, relVars>>

\* backtest_node, lines 26-53: one turn of the loop.
BacktestIter ==
    /\ bt_pc = "loop"
    /\ loop_idx <= Len(strategies)
    /\ results' = DictSet(results, strategies[loop_idx].name,
                          StrategyEntry(strategies[loop_idx], close, FromHolding(close).value,
                                        benchmark_metrics.value, today, slice_ok))
    /\ loop_idx' = loop_idx + 1
    /\ UNCHANGED <<bt_pc, close, strategies, benchmark_metrics, evaluation,
                   envVars, pipeVars, engineVars, simVars, perVars, relVars>>

\* backtest_node, lines 55-62: the benchmark entry is added and the node returns.
BacktestReturn ==
    /\ bt_pc = "loop"
    /\ loop_idx > Len(strategies)
    /\ results' = DictSet(results, "benchmark", benchmark_metrics.value)
    /\ bt_pc' = "returned"
    /\ UNCHANGED <<close, strategies, loop_idx, benchmark_metrics, evaluation,
                   envVars, pipeVars, engineVars, simVars, perVars, relVars>>

\* evaluate_node on the results backtest_node returned (the next stage).
Evaluate ==
    /\ bt_pc = "returned"
    /\ evaluation' = evaluate_node(results)
    /\ bt_pc' = "evaluated"
    /\ UNCHANGED <<close, strategies, loop_idx, results, benchmark_metrics,
                   envVars, pipeVars, engineVars, simVars, perVars, relVars>>

BtNext == BacktestStart \/ BacktestIter \/ BacktestReturn \/ Evaluate

SpecBacktest == BtInit /\ [][BtNext]_vars

(* ----------------------- calculate_period_return ----------------------- *)

PerInit ==
    /\ today \in Dates
    /\ slice_ok \in BOOLEAN
    /\ per_pc = "call"
    /\ period \in { PeriodLabels[k] : k \in 1..Len(PeriodLabels) } \cup {"5Y"}
    /\ period_return = Raise("not computed")
    /\ SimOff /\ RelOff /\ BtOff /\ EngineOff /\ PipeOff

\* calculate_period_return(portfolio, period) for a one-bar holding portfolio.
PeriodCall ==
    /\ per_pc = "call"
    /\ period_return' =
           calculate_period_return(FromHolding(<<1>>).value, period, today, slice_ok)
    /\ per_pc' = "done"
    /\ UNCHANGED <<period, envVars, pipeVars, engineVars, simVars, relVars, btVars>>

PerNext == PeriodCall

SpecPeriod == PerInit /\ [][PerNext]_vars

(* --------------- calculate_beta, calculate_information_ratio ----------- *)

\* Longest return series handed to the two functions.
MaxReturns == 3

ReturnSeries == SeqsUpTo(-1..1, MaxReturns)

RelInit ==
    /\ today = OrdinaryDay
    /\ slice_ok = FALSE
    /\ rel_pc = "call"
    /\ strategy_returns \in ReturnSeries
    /\ benchmark_returns \in ReturnSeries
    /\ beta = NaN
    /\ information_ratio = NaN
    /\ SimOff /\ PerOff /\ BtOff /\ EngineOff /\ PipeOff

\* Lines 46-47 of backtest_node: the two calls on a pair of return series.
RelCall ==
    /\ rel_pc = "call"
    /\ beta' = calculate_beta(strategy_returns, benchmark_returns)
    /\ information_ratio' = calculate_information_ratio(strategy_returns, benchmark_returns)
    /\ rel_pc' = "done"
    /\ UNCHANGED <<strategy_returns, benchmark_returns, envVars, pipeVars, engineVars, simVars, perVars, btVars>>

RelNext == RelCall

SpecRel == RelInit /\ [][RelNext]_vars

(* ---------------- properties of backtest_node / evaluate_node ----------- *)

Returned == bt_pc \in {"returned", "evaluated"}

IsError(entry) == DOMAIN entry = {"error"}

IsBundle(entry) == {"strategy", "total_return", "sharpe_ratio", "trades"} \subseteq DOMAIN entry

Remove(seq, i) == SubSeq(seq, 1, i - 1) \o SubSeq(seq, i + 1, Len(seq))

\* What the loop body stores for strategy S of the current run.
Solo(S) ==
    StrategyEntry(S, close, FromHolding(close).value, benchmark_metrics.value,
                  today, slice_ok)

\* C1 as claimed: the call does not raise, and for every strategy S of the
\* list whose simulation or metrics raise, results[S.name] is exactly the
\* error record and every entry under another name is what the run without
\* S stores there.
C1_FailureIsIsolated ==
    /\ (\E i \in 1..Len(strategies) : IsError(Solo(strategies[i]))) => bt_pc # "raised"
    /\ Returned =>
         \A i \in 1..Len(strategies) :
            LET S == strategies[i]
                without == backtest_node(close, Remove(strategies, i), today, slice_ok)
            IN  IsError(Solo(S)) =>
                  /\ DictGet(results, S.name) = Solo(S)
                  /\ ~without.raised
                  /\ \A n \in DictKeys(results) \ {S.name} :
                        /\ n \in DictKeys(without.value)
                        /\ DictGet(results, n) = DictGet(without.value, n)

ErroredNames == { results[k].key : k \in { j \in 1..Len(results) : IsError(results[j].value) } }

\* C2 as claimed: when the results hold an error entry, evaluate_node
\* completes and neither its ordered list nor its top 3 names an errored
\* strategy.
C2_ErroredExcludedFromRanking ==
    (bt_pc = "evaluated" /\ ErroredNames # {}) =>
        /\ ~evaluation.raised
        /\ \A k \in 1..Len(evaluation.value.scored) :
              evaluation.value.scored[k].key \notin ErroredNames
        /\ \A k \in 1..Len(evaluation.value.top_3) :
              evaluation.value.top_3[k] \notin ErroredNames

\* C3 as claimed: on the results of backtest_node, evaluate_node returns the
\* strategy names by descending Sharpe ratio (the sharpe_ratio key that
\* backtest_node writes), equal Sharpe ratios by descending total return.
C3_RankedBySharpeThenReturn ==
    bt_pc = "evaluated" =>
        /\ ~evaluation.raised
        /\ LET scored == evaluation.value.scored
               ranked == { k \in 1..Len(scored) : IsBundle(scored[k].value) }
           IN  /\ { scored[k].key : k \in ranked } =
                      { results[k].key : k \in { j \in 1..Len(results) :
                                                    IsBundle(results[j].value) } }
               /\ \A a \in ranked, b \in ranked :
                     a < b =>
                       /\ ~ValLt(scored[a].value.sharpe_ratio, scored[b].value.sharpe_ratio)
                       /\ (scored[a].value.sharpe_ratio = scored[b].value.sharpe_ratio
                             => ~ValLt(scored[a].value.total_return,
                                       scored[b].value.total_return))

\* C7: whenever backtest_node returns, the results hold exactly one entry per
\* distinct strategy name, each a metrics bundle or an error record, and a
\* "benchmark" entry that is the Buy & Hold bundle; also when every strategy
\* failed and when there is no strategy.
C7_ResultsShape ==
    Returned =>
        /\ DictKeys(results) =
               { strategies[k].name : k \in 1..Len(strategies) } \cup {"benchmark"}
        /\ Len(results) = Cardinality(DictKeys(results))
        /\ \A k \in 1..Len(results) :
              IsError(results[k].value) \/ IsBundle(results[k].value)
        /\ ~benchmark_metrics.raised
        /\ DictGet(results, "benchmark") = benchmark_metrics.value
        /\ DictGet(results, "benchmark").strategy = "Buy & Hold"
        /\ "vs_benchmark" \notin DOMAIN DictGet(results, "benchmark")

\* C7 witness: the node returned for two strategies that both failed, and
\* the results hold their two error records and the benchmark bundle.
C7_Witness ==
    /\ bt_pc = "returned"
    /\ Len(strategies) = 2
    /\ strategies[1].name = "A"
    /\ strategies[2].name = "B"
    /\ Len(results) = 3
    /\ IsError(DictGet(results, "A"))
    /\ IsError(DictGet(results, "B"))
    /\ IsBundle(DictGet(results, "benchmark"))

(* ---------------- properties of calculate_period_return ---------------- *)

\* C10 as claimed: for every period label and every wall-clock date,
\* calculate_period_return returns a number and does not raise.
C10_PeriodReturnNeverRaises ==
    per_pc = "done" =>
        /\ ~period_return.raised
        /\ period_return.value[1] \in {"num", "slice_total_return"}

(* ------------ properties of beta and information ratio ----------------- *)

\* At least two returns, all equal: the sample variance is 0.
ZeroVariance(series) ==
    /\ Len(series) >= 2
    /\ \A a \in 1..Len(series), b \in 1..Len(series) : series[a] = series[b]

Excess == [k \in 1..Len(strategy_returns) |-> strategy_returns[k] - benchmark_returns[k]]

ReturnSpan == 2

\* Drawdown series of a given length: 0 at a peak, negative below it.
DrawdownSeries(n) == [1..n -> {-1, 0}]

RiskInit ==
    /\ today = OrdinaryDay
    /\ slice_ok = FALSE
    /\ risk_pc = "call"
    /\ returns \in SeqsUpTo(-ReturnSpan..ReturnSpan, MaxReturns)
    /\ drawdowns \in DrawdownSeries(Len(returns))
    /\ return_stats = ReturnStats(<<>>)
    /\ risk_metrics = RiskMetrics(<<>>)
    /\ ulcer_index = Num(0)
    /\ BacktestOff /\ FrameOff /\ IndOff /\ ScoreOff /\ PipeOff

\* Lines 103 and 107-125 of calculate_metrics on the portfolio's return and
\* drawdown series.
RiskCall ==
    /\ risk_pc = "call"
    /\ return_stats' = ReturnStats(returns)
    /\ risk_metrics' = RiskMetrics(returns)
    /\ ulcer_index' = calculate_ulcer_index(drawdowns)
    /\ risk_pc' = "done"
    /\ UNCHANGED <<returns, drawdowns, envVars, pipeVars, backtestVars, indVars, scoreVars>>

RiskNext == RiskCall

SpecRisk == RiskInit /\ [][RiskNext]_vars

(* -------------- properties of the return and risk statistics ----------- *)

\* C11 as claimed: when the return series is empty, var_95, cvar_95,
\* omega_ratio, tail_ratio, ulcer_index, up_day_ratio, best_day, worst_day,
\* avg_up_day, avg_down_day, skew and kurtosis are all 0.
C11_EmptyReturnsReportZero ==
    (risk_pc = "done" /\ returns = <<>>) =>
        /\ risk_metrics.var_95 = Num(0)
        /\ risk_metrics.cvar_95 = Num(0)
        /\ risk_metrics.omega_ratio = Num(0)
        /\ risk_metrics.tail_ratio = Num(0)
        /\ ulcer_index = Num(0)
        /\ return_stats.up_day_ratio = Num(0)
        /\ return_stats.avg_up_day = Num(0)
        /\ return_stats.avg_down_day = Num(0)
        /\ return_stats.best_day = Num(0)
        /\ return_stats.worst_day = Num(0)
        /\ risk_metrics.skew = Num(0)
        /\ risk_metrics.kurtosis = Num(0)

\* The returns at or below -VaR.
AtOrBelowMinusVar ==
    { k \in 1..Len(returns) : VLe(Num(returns[k]), VNeg(risk_metrics.var_95)) }

\* Magnitude of the mean of the returns at or below -VaR.
TailMeanMagnitude ==
    LET total == SumSeq([k \in 1..Len(returns) |->
                            IF k \in AtOrBelowMinusVar THEN returns[k] ELSE 0])
    IN  Frac(Abs(total), Cardinality(AtOrBelowMinusVar))

\* C12 as claimed: for a non-empty return series VaR and CVaR are
\* non-negative numbers, CVaR is the magnitude of the mean of the returns at
\* or below -VaR, and CVaR equals VaR exactly when (if and only if) no
\* return is at or below -VaR.
C12_CvarIsVarIffTailEmpty ==
    (risk_pc = "done" /\ returns # <<>>) =>
        /\ IsFinite(risk_metrics.var_95) /\ VLe(Num(0), risk_metrics.var_95)
        /\ IsFinite(risk_metrics.cvar_95) /\ VLe(Num(0), risk_metrics.cvar_95)
        /\ AtOrBelowMinusVar # {} => risk_metrics.cvar_95 = TailMeanMagnitude
        /\ risk_metrics.cvar_95 = risk_metrics.var_95 <=> AtOrBelowMinusVar = {}

\* C12 amended: for a non-empty return series VaR and CVaR are non-negative
\* numbers, CVaR is the magnitude of the mean of the returns at or below
\* -VaR when there is such a return, and CVaR equals VaR when there is none
\* (it can equal VaR otherwise too).
C12_VarCvarNonNegative ==
    (risk_pc = "done" /\ returns # <<>>) =>
        /\ IsFinite(risk_metrics.var_95) /\ VLe(Num(0), risk_metrics.var_95)
        /\ IsFinite(risk_metrics.cvar_95) /\ VLe(Num(0), risk_metrics.cvar_95)
        /\ AtOrBelowMinusVar # {} => risk_metrics.cvar_95 = TailMeanMagnitude
        /\ AtOrBelowMinusVar = {} => risk_metrics.cvar_95 = risk_metrics.var_95

\* C12 witness: of the returns -2, -1, 2 only -2 is at or below -VaR =
\* -19/10, and CVaR is 2.
C12_Witness ==
    /\ risk_pc = "done"
    /\ returns = <<-1, 2, -2>>
    /\ risk_metrics.var_95 = Frac(19, 10)
    /\ AtOrBelowMinusVar = {3}
    /\ risk_metrics.cvar_95 = Num(2)

Gains == SumSeq(ReturnsAbove(returns, 0))

Losses == Abs(SumSeq(ReturnsBelow(returns, 0)))

HasGain == \E k \in 1..Len(returns) : returns[k] > 0

HasLoss == \E k \in 1..Len(returns) : returns[k] < 0

\* C13 as claimed: for a non-empty series the omega ratio is +infinity with
\* at least one gain and no loss, 0 with neither gain nor loss, and
\* otherwise sum(returns > 0) / |sum(returns <= 0)|.
C13_OmegaByGainsAndLosses ==
    (risk_pc = "done" /\ returns # <<>>) =>
        /\ (HasGain /\ ~HasLoss) => risk_metrics.omega_ratio = Inf
        /\ (~HasGain /\ ~HasLoss) => risk_metrics.omega_ratio = Num(0)
        /\ HasLoss => risk_metrics.omega_ratio = Frac(Gains, Losses)

\* C13 amended: for a non-empty series whose non-positive returns sum to
\* less than 1e-10 in magnitude (so when there is no loss) the omega ratio
\* is +infinity with at least one gain and 0 without; otherwise it is
\* sum(returns > 0) / |sum(returns <= 0)|.
C13_OmegaWithTolerance ==
    (risk_pc = "done" /\ returns # <<>>) =>
        /\ (HasGain /\ Losses < OMEGA_EPS) => risk_metrics.omega_ratio = Inf
        /\ (~HasGain /\ Losses < OMEGA_EPS) => risk_metrics.omega_ratio = Num(0)
        /\ Losses >= OMEGA_EPS => risk_metrics.omega_ratio = Frac(Gains, Losses)
        /\ ~HasLoss => Losses < OMEGA_EPS

\* C13 witness: a gain of 2 against a loss below the tolerance gave
\* +infinity, not the ratio.
C13_Witness ==
    /\ risk_pc = "done"
    /\ returns = <<2, -1, 0>>
    /\ risk_metrics.omega_ratio = Inf

(* ----------------- calculate_overall_score, generate_report ------------ *)

\* Rows of the frames handed to the scoring engine: around the 60 rows it
\* asks for, a short frame and a frame without rows.
BarCounts == {0, 2, 59, 60, 61}

ConstCol(n, v) == [i \in 1..n |-> Num(v)]

\* A column at `base` with its last `k` rows at `last`.
TailCol(n, base, last, k) == [i \in 1..n |-> IF i > n - k THEN Num(last) ELSE Num(base)]

\* Latest close against a history at 100.
LastCloses == {80, 100, 125}

\* sma20, sma50, sma200 and ADX_14 of the latest rows: aligned upwards with
\* a strong trend, aligned downwards with a weak one, and level.
TrendShapes ==
    { [sma20 |-> 95, sma50 |-> 90, sma200 |-> 85, adx |-> 35],
      [sma20 |-> 130, sma50 |-> 135, sma200 |-> 140, adx |-> 10],
      [sma20 |-> 100, sma50 |-> 100, sma200 |-> 100, adx |-> 25] }

AtrValues == {0, 2, 10}

\* rsi14, %K and %D of the latest rows.
OscillatorShapes ==
    { [rsi |-> 20, k |-> 10, d |-> 10],
      [rsi |-> 50, k |-> 50, d |-> 50],
      [rsi |-> 80, k |-> 90, d |-> 90] }

\* Volume: level, five times higher on the last five rows, and none traded.
VolumeShapes == { [base |-> 1, last |-> 1], [base |-> 1, last |-> 5], [base |-> 0, last |-> 0] }

\* The pattern flag of the latest row: none, a bullish doji, bearish engulfing.
PatternShapes == {0, 100, -100}

\* The price and volume columns of a frame.
PriceFrame(n, last_close, volume) ==
    [n |-> n,
     col |-> [c \in OHLCV |->
                 CASE c = "close" -> TailCol(n, 100, last_close, 1)
                   [] c = "volume" -> TailCol(n, volume.base, volume.last, 5)
                   [] OTHER -> ConstCol(n, 100)]]

\* A frame that already carries the indicator columns the scores read.
IndicatorFrame(n, last_close, volume, trend, atr, osc, pat) ==
    LET prices == PriceFrame(n, last_close, volume)
    IN  [prices EXCEPT !.col =
            [c \in {"sma20", "sma50", "sma200", "ADX_14", "atr", "rsi14",
                    "STOCHk_14_3_3", "STOCHd_14_3_3", "doji", "engulfing",
                    "hammer", "shooting_star"} |->
                CASE c = "sma20" -> ConstCol(n, trend.sma20)
                  [] c = "sma50" -> ConstCol(n, trend.sma50)
                  [] c = "sma200" -> ConstCol(n, trend.sma200)
                  [] c = "ADX_14" -> ConstCol(n, trend.adx)
                  [] c = "atr" -> ConstCol(n, atr)
                  [] c = "rsi14" -> ConstCol(n, osc.rsi)
                  [] c = "STOCHk_14_3_3" -> ConstCol(n, osc.k)
                  [] c = "STOCHd_14_3_3" -> ConstCol(n, osc.d)
                  [] c = "doji" -> TailCol(n, 0, IF pat > 0 THEN pat ELSE 0, 1)
                  [] c = "engulfing" -> TailCol(n, 0, IF pat < 0 THEN pat ELSE 0, 1)
                  [] OTHER -> ConstCol(n, 0)]
            @@ prices.col]

\* Rows of the long flat series.
FlatBars == 1000

\* The indicator columns that the scores read, one group per indicator.
IndicatorGroups ==
    { {"sma20"}, {"sma50"}, {"sma200"}, {"ADX_14"}, {"atr"}, {"rsi14"},
      {"STOCHk_14_3_3", "STOCHd_14_3_3"},
      {"doji", "engulfing", "hammer", "shooting_star"} }

\* The frame without the columns `cols`.
DropColumns(frame, cols) ==
    [frame EXCEPT !.col = [c \in Columns(frame) \ cols |-> frame.col[c]]]

\* A 60-bar indicator frame (rising, calm, oversold, a doji on the latest
\* bar) with any of its indicators removed.
PartialFrames ==
    { DropColumns(IndicatorFrame(60, 125, [base |-> 1, last |-> 1],
                                 [sma20 |-> 95, sma50 |-> 90, sma200 |-> 85, adx |-> 35],
                                 2, [rsi |-> 20, k |-> 10, d |-> 10], 100),
                  UNION removed) : removed \in SUBSET IndicatorGroups }

ScoreFrames ==
    { PriceFrame(n, c, v) : n \in BarCounts, c \in LastCloses, v \in VolumeShapes }
    \cup { PriceFrame(FlatBars, 100, v) : v \in VolumeShapes }
    \cup PartialFrames
    \cup { IndicatorFrame(n, c, v, t, a, o, q) :
              n \in BarCounts, c \in LastCloses, v \in VolumeShapes, t \in TrendShapes,
              a \in AtrValues, o \in OscillatorShapes, q \in PatternShapes }

\* The library of the scoring runs: ta.ichimoku's result concatenates, or
\* not; its indicators are a number, or undefined (as RSI, ADX and the
\* stochastic are where the price does not move).
ScoreLibs == { [ok |-> b, warmup |-> 0, cell |-> v] : b \in BOOLEAN, v \in {Num(50), NaN} }

\* The library is called only for a frame without indicators.
ScoreLibsFor(frame) ==
    IF "sma20" \in Columns(frame) THEN { [ok |-> TRUE, warmup |-> 0, cell |-> Num(50)] }
    ELSE ScoreLibs

ScoreInit ==
    /\ today = OrdinaryDay
    /\ slice_ok = FALSE
    /\ df \in ScoreFrames
    /\ lib \in ScoreLibsFor(df)
    /\ score_pc = "call"
    /\ score_out = Raise("not computed")
    /\ report = Raise("not computed")
    /\ BacktestOff /\ RiskOff /\ IndOff /\ PipeOff

\* StockScoring.calculate_overall_score(df)
ScoreCall ==
    /\ score_pc = "call"
    /\ score_out' = calculate_overall_score(df)
    /\ score_pc' = "scored"
    /\ UNCHANGED <<report, df, lib, ind_pc, ind_out, envVars, pipeVars, backtestVars, riskVars>>

\* StockScoring.generate_report(df, symbol): the report, and the score data
\* computed on the way when the indicators were there or could be computed.
ReportCall ==
    /\ score_pc = "call"
    /\ report' = generate_report(df, "SYM", lib)
    /\ \E indicators \in { EnsureIndicators(df, lib) } :
          score_out' = IF indicators.raised THEN score_out ELSE ScoreOn(indicators)
    /\ score_pc' = "reported"
    /\ UNCHANGED <<df, lib, ind_pc, ind_out, envVars, pipeVars, backtestVars, riskVars>>

ScoreNext == ScoreCall \/ ReportCall

SpecScore == ScoreInit /\ [][ScoreNext]_vars

(* ------------------- properties of the scoring engine ------------------ *)

\* calculate_overall_score ran on a frame with at least 60 rows and returned.
ScoredEnough == score_pc = "scored" /\ df.n >= 60 /\ ~score_out.raised

\* C14 as claimed: for a frame with at least 60 bars, whatever its indicator
\* columns hold, calculate_overall_score returns an overall_score in [0, 100].
C14_ScoreWithinBounds ==
    (score_pc = "scored" /\ df.n >= 60) =>
        /\ ~score_out.raised
        /\ VLe(Num(0), score_out.value.overall_score)
        /\ VLe(score_out.value.overall_score, Num(100))

\* C15: in every score report for a frame with at least 60 bars, signal is
\* "buy" iff overall_score > 70, "sell" iff overall_score < 30, and
\* "neutral" otherwise, so for exactly 70 and exactly 30.
C15_SignalThresholds ==
    (score_pc \in {"scored", "reported"} /\ df.n >= 60 /\ ~score_out.raised) =>
        LET overall_score == score_out.value.overall_score
            signal == score_out.value.signal
        IN  /\ signal \in {"buy", "sell", "neutral"}
            /\ signal = "buy" <=> VLt(Num(70), overall_score)
            /\ signal = "sell" <=> VLt(overall_score, Num(30))
            /\ signal = "neutral" <=> ~VLt(Num(70), overall_score)
                                        /\ ~VLt(overall_score, Num(30))
            /\ overall_score \in {Num(70), Num(30)} => signal = "neutral"
            /\ (score_pc = "reported" /\ ~report.raised) =>
                  /\ report.value.score = overall_score
                  /\ report.value.signal = signal

\* C15 witness: a frame with 61 rows scored exactly 70, and the signal is
\* neutral.
C15_Witness ==
    /\ ScoredEnough
    /\ df.n = 61
    /\ score_out.value.overall_score = Num(70)
    /\ score_out.value.signal = "neutral"

\* The frame has rows and columns, and fewer than 60 rows.
ShortFrame == ~IsEmpty(df) /\ df.n < 60

\* C16 as claimed: for a non-empty frame with fewer than 60 bars,
\* calculate_overall_score returns overall_score = 0 with error =
\* "insufficient data" and invokes none of the six component functions.
C16_InsufficientData ==
    (score_pc = "scored" /\ ShortFrame) =>
        /\ ~score_out.raised
        /\ score_out.value.overall_score = Num(0)
        /\ score_out.value.error = "insufficient data"
        /\ score_out.calls = <<>>

\* C16 amended: for a non-empty frame with fewer than 60 bars,
\* calculate_overall_score returns the record of overall_score = 0 and
\* error = "Insufficient data points", nothing else, and invokes none of
\* the six component functions.
C16_InsufficientDataPoints ==
    (score_pc = "scored" /\ ShortFrame) =>
        /\ ~score_out.raised
        /\ score_out.value = [overall_score |-> Num(0), error |-> "Insufficient data points"]
        /\ score_out.calls = <<>>

\* C16 witness: a frame of 59 rows with indicator columns was scored.
C16_Witness ==
    /\ score_pc = "scored"
    /\ df.n = 59
    /\ "sma20" \in Columns(df)
    /\ score_out.value.overall_score = Num(0)
    /\ score_out.calls = <<>>

\* C17 as claimed: for a frame with 2 to 59 bars and complete OHLCV columns,
\* generate_report returns a report with the zero / neutral defaults and
\* does not raise (here: in the runs where the library computes every
\* indicator).
C17_ShortFrameReportReturned ==
    (score_pc = "reported" /\ lib.ok /\ df.n \in 2..59
        /\ OHLCV \subseteq Columns(df)) =>
        /\ ~report.raised
        /\ report.value.score = Num(0)
        /\ report.value.signal = "neutral"

(* ------------- add_basic_indicators, calculate_all_indicators ---------- *)

\* A two-row frame with some of the required columns and a symbol column.
ShortInputs ==
    { [n |-> 2, col |-> [c \in keep \cup {"symbol"} |-> ConstCol(2, 1)]] :
        keep \in SUBSET OHLCV }

\* Rows of the long input frames: the 200 of the longest average, and more.
LongBarCounts == {200, 201}

\* The first cell of the open column: a number, missing, infinite.
OpenCells == { Num(1), NaN, Inf }

\* A long frame with every required column: closes at 1 that end at
\* `last_close`, a level volume, and an open column that starts at `open_`.
LongInput(n, last_close, volume, open_) ==
    [n |-> n,
     col |-> [c \in OHLCV |->
                 CASE c = "close" -> TailCol(n, 1, last_close, 30)
                   [] c = "volume" -> ConstCol(n, volume)
                   [] c = "open" -> [i \in 1..n |-> IF i = 1 THEN open_ ELSE Num(1)]
                   [] OTHER -> ConstCol(n, 1)]]

LongInputs ==
    { LongInput(n, c, v, o) : n \in LongBarCounts, c \in {1, 2}, v \in {0, 1}, o \in OpenCells }

\* What the library may do: ta.ichimoku's result concatenates or not, and
\* the other indicators are a number, infinite or missing after a warm-up.
IndLibs ==
    { [ok |-> b, warmup |-> w, cell |-> v] :
        b \in BOOLEAN, w \in {0, 14}, v \in {Num(50), Inf, NaN} }

IndInit ==
    /\ today = OrdinaryDay
    /\ slice_ok = FALSE
    /\ df \in ShortInputs \cup LongInputs
    /\ lib \in IndLibs
    /\ ind_pc = "call"
    /\ ind_out = Raise("not computed")
    /\ BacktestOff /\ RiskOff /\ ScoreOff /\ PipeOff

\* TechnicalIndicators.add_basic_indicators(df): the function works on
\* result = df.copy(), so the caller's frame stays as it is.
BasicCall ==
    /\ ind_pc = "call"
    /\ ind_out' = add_basic_indicators(df, lib)
    /\ df' = df
    /\ ind_pc' = "basic"
    /\ UNCHANGED <<lib, envVars, pipeVars, backtestVars, riskVars, scoreVars>>

\* TechnicalIndicators.calculate_all_indicators(df)
AllIndicatorsCall ==
    /\ ind_pc = "call"
    /\ ind_out' = calculate_all_indicators(df, lib)
    /\ df' = df
    /\ ind_pc' = "all"
    /\ UNCHANGED <<lib, envVars, pipeVars, backtestVars, riskVars, scoreVars>>

IndNext == BasicCall \/ AllIndicatorsCall

SpecIndicators == IndInit /\ [][IndNext]_vars

(* ------------------------- add_trend_indicators ------------------------ *)

\* Longest frame handed to add_trend_indicators on its own.
MaxTrendBars == 4

\* A moving-average column: `warmup` missing rows, then values.
AverageColumns(n, warmup) ==
    { [i \in 1..n |-> IF i <= warmup THEN NaN ELSE Num(v[i])] : v \in [1..n -> {1, 2}] }

\* Frames with the three averages: each is missing on its first rows, the
\* slower average for at least as long as the faster one.
TrendInputs ==
    UNION { UNION { UNION {
        { [n |-> n,
           col |-> [c \in {"high", "low", "close", "sma20", "sma50", "sma200"} |->
                       CASE c = "sma50" -> a50
                         [] c = "sma200" -> a200
                         [] c = "sma20" -> [i \in 1..n |-> IF i = 1 THEN NaN ELSE Num(1)]
                         [] OTHER -> ConstCol(n, 1)]] :
            a50 \in AverageColumns(n, w50), a200 \in AverageColumns(n, w200) }
        : w200 \in w50..n } : w50 \in 1..n } : n \in 1..MaxTrendBars }

TrendLib == [ok |-> TRUE, warmup |-> 0, cell |-> Num(50)]

TrendInit ==
    /\ today = OrdinaryDay
    /\ slice_ok = FALSE
    /\ df \in TrendInputs
    /\ lib = TrendLib
    /\ ind_pc = "call"
    /\ ind_out = Raise("not computed")
    /\ BacktestOff /\ RiskOff /\ ScoreOff /\ PipeOff

\* TechnicalIndicators.add_trend_indicators(df)
TrendCall ==
    /\ ind_pc = "call"
    /\ ind_out' = add_trend_indicators(df, lib)
    /\ df' = df
    /\ ind_pc' = "trend"
    /\ UNCHANGED <<lib, envVars, pipeVars, backtestVars, riskVars, scoreVars>>

TrendNext == TrendCall

SpecTrend == TrendInit /\ [][TrendNext]_vars

(* ------------------ properties of the indicator engine ----------------- *)

\* The required columns that the frame lacks, in the order open, high,
\* low, close, volume.
Absent ==
    LET IsAbsent(c) == c \notin Columns(df)
    IN  SelectSeq(<<"open", "high", "low", "close", "volume">>, IsAbsent)

\* C18: whenever one of open, high, low, close, volume is absent from the
\* input, add_basic_indicators and calculate_all_indicators raise the
\* missing-column error that names exactly the absent columns, before any
\* indicator is computed, and the caller's frame is left as it was.
C18_MissingColumnsRaise ==
    [][(ind_pc = "call" /\ ind_pc' \in {"basic", "all"}) =>
          IF Absent # <<>>
          THEN /\ ind_out'.raised
               /\ ind_out'.error =
                     "ValueError: DataFrame missing required columns: ["
                         \o JoinQuoted(Absent) \o "]"
               /\ ~ind_out'.computed
               /\ df' = df
          ELSE ind_out'.error # "ValueError: DataFrame missing required columns: []"]_vars

\* C18 witness: calculate_all_indicators was called on a frame without the
\* open and volume columns and raised the error naming the two.
C18_Witness ==
    /\ ind_pc = "all"
    /\ Columns(df) = {"high", "low", "close", "symbol"}
    /\ ind_out.raised
    /\ ind_out.error = "ValueError: DataFrame missing required columns: ['open', 'volume']"

\* C19: for a series of at least 200 bars with complete OHLCV columns, the
\* frame that calculate_all_indicators returns has no infinite and no
\* missing cell in any column: every cell that was infinite or missing
\* before the normalisation is 0, every other cell is as computed, and the
\* finite open, high, low, close and volume values of the input are
\* carried over.
C19_NoInfiniteNoMissing ==
    (ind_pc = "all" /\ df.n >= 200 /\ OHLCV \subseteq Columns(df) /\ ~ind_out.raised) =>
        LET out == ind_out.value
            computed == AllIndicatorsRaw(df, lib).value
        IN  /\ out.n = df.n
            /\ Columns(df) \subseteq Columns(out)
            /\ {"sma20", "sma50", "sma200", "rsi14", "atr", "volume_ratio",
                "golden_cross", "death_cross"} \subseteq Columns(out)
            /\ Columns(out) = Columns(computed)
            /\ \A c \in Columns(out) :
                  LET cells == out.col[c]
                      before == computed.col[c]
                  IN  \A i \in 1..out.n :
                        /\ IsFinite(cells[i])
                        /\ IF IsFinite(before[i])
                           THEN cells[i] = before[i]
                           ELSE cells[i] = Num(0)
            /\ \A c \in OHLCV : \A i \in 1..df.n :
                  IsFinite(df.col[c][i]) => out.col[c][i] = df.col[c][i]

\* C19 witness: a frame of 200 bars came back; the library's infinite
\* values, the missing first 199 rows of sma200 and the missing first open
\* are 0, and the last sma200 is the mean of the 200 closes.
C19_Witness ==
    /\ ind_pc = "all"
    /\ df.n = 200
    /\ ~ind_out.raised
    /\ lib.cell = Inf
    /\ df.col["open"][1] = NaN
    /\ ind_out.value.col["open"][1] = Num(0)
    /\ ind_out.value.col["rsi14"][200] = Num(0)
    /\ ind_out.value.col["sma200"][199] = Num(0)
    /\ ind_out.value.col["sma200"][200] = Frac(230, 200)

\* Both averages of bar i are there.
Available(i) == IsFinite(df.col["sma50"][i]) /\ IsFinite(df.col["sma200"][i])

\* SMA50 is above SMA200 on bar i.
Above(i) == Available(i) /\ VLt(df.col["sma200"][i], df.col["sma50"][i])

\* SMA50 goes from <= SMA200 to > SMA200 at bar k: the averages are there
\* on bar k - 1, SMA50 <= SMA200 on every bar before k that has them, and
\* SMA50 > SMA200 on every bar from k on.
TransitionAt(k) ==
    /\ k \in 2..df.n
    /\ Available(k - 1)
    /\ \A j \in 1..(k - 1) : Available(j) => ~Above(j)
    /\ \A j \in k..df.n : Above(j)

\* C20: over a series in which SMA50 is <= SMA200 on every bar before bar k
\* and > SMA200 from bar k on, golden_cross is 1 at bar k and 0 at every
\* other bar; and on no series does it fire on the first bar where SMA200
\* is there.
C20_GoldenCrossFiresOnce ==
    (ind_pc = "trend" /\ ~ind_out.raised) =>
        LET golden_cross == ind_out.value.col["golden_cross"]
        IN  /\ \A k \in 1..df.n :
                  TransitionAt(k) =>
                      \A i \in 1..df.n : golden_cross[i] = Flag(i = k)
            /\ \A i \in 1..df.n :
                  (IsFinite(df.col["sma200"][i])
                     /\ (i = 1 \/ ~IsFinite(df.col["sma200"][i - 1])))
                  => golden_cross[i] = Num(0)

\* C20 witness: the averages are there from bar 2 on, SMA50 = SMA200 on bar
\* 2 and SMA50 > SMA200 on bars 3 and 4: the flag is 1 on bar 3 only.
C20_Witness ==
    /\ ind_pc = "trend"
    /\ df.col["sma50"] = <<NaN, Num(1), Num(2), Num(2)>>
    /\ df.col["sma200"] = <<NaN, Num(1), Num(1), Num(1)>>
    /\ TransitionAt(3)
    /\ ind_out.value.col["golden_cross"] = <<Num(0), Num(0), Num(1), Num(0)>>

(* -------------------- flat series and missing values ------------------- *)

\* The latest close equals the latest SMA20 and SMA200, as on a flat series.
FlatLatest ==
    /\ {"close", "sma20", "sma200"} \subseteq Columns(df)
    /\ ILoc(df, "sma20", 1) = ILoc(df, "close", 1)
    /\ ILoc(df, "sma200", 1) = ILoc(df, "close", 1)

\* C21 as claimed: when the latest close equals SMA20 and SMA200, the price
\* position adds 0 to the trend score: the trend score is what the SMA
\* alignment and the ADX tier alone give.
C21_FlatPricePositionZero ==
    (score_pc = "scored" /\ ~TooShort(df) /\ ~score_out.raised /\ FlatLatest) =>
        score_out.value.components.trend.trend_score
            = TrendFormula(SmaAlignment(df), 0, AdxScore(df))

\* The frame is a flat series of FlatBars bars: every price at one level,
\* a level volume, no indicator yet.
FlatSeries ==
    /\ df.n = FlatBars
    /\ "sma20" \notin Columns(df)
    /\ \A c \in OHLCV : \A i \in 1..df.n : df.col[c][i] = df.col[c][1]
    /\ VLt(Num(0), df.col["volume"][1])

\* C22 as claimed: a flat series run through calculate_all_indicators and
\* calculate_overall_score has an overall score between 30 and 70 and the
\* signal "neutral".
C22_FlatSeriesNeutral ==
    (score_pc = "reported" /\ FlatSeries /\ ~score_out.raised) =>
        /\ VLe(Num(30), score_out.value.overall_score)
        /\ VLe(score_out.value.overall_score, Num(70))
        /\ score_out.value.signal = "neutral"

\* C26 as claimed: for a frame with at least 60 bars, every entry of
\* component_scores (momentum, trend, volatility, volume, oscillator,
\* pattern) lies in [0, 1]; the trend entry is the trend score of the SMA
\* alignment, the price position and the ADX tier of the frame.  (Checked
\* on the frames with volume traded on the latest bar.)
C26_ComponentScoresInUnitRange ==
    (ScoredEnough /\ VLt(Num(0), ILoc(df, "volume", 1))) =>
        \A k \in 1..Len(ComponentNames) :
            /\ VLe(Num(0), score_out.value.component_scores[ComponentNames[k]])
            /\ VLe(score_out.value.component_scores[ComponentNames[k]], Num(1))

\* A report was made from a price series of 60 to 199 bars: SMA200 is
\* undefined on its latest bar.
ReportedWithoutSma200 ==
    /\ score_pc = "reported"
    /\ df.n \in 60..199
    /\ "sma20" \notin Columns(df)
    /\ ~report.raised

\* C27 as claimed: for a price series of 60 to 199 bars scored through
\* generate_report, the comparisons with the undefined SMA200 add nothing to
\* the trend score, which is then the score of sma20 against sma50, of the
\* close against sma20 and of the ADX tier; and an undefined RSI or
\* stochastic is not read as 'oversold'.
C27_UndefinedIsNotZero ==
    ReportedWithoutSma200 =>
        LET frame == EnsureIndicators(df, lib).value
            oscillator == score_out.value.components.oscillator
        IN  /\ score_out.value.components.trend.trend_score
                  = TrendFormula(Vote(LatestGt(frame, "sma20", "sma50")),
                                 Vote(LatestGt(frame, "close", "sma20")),
                                 AdxScore(frame))
            /\ lib.cell = NaN =>
                  \A k \in DOMAIN oscillator.signals : oscillator.signals[k] # "oversold"

\* 0.5, the default of the component scores (lines 281-285).
NeutralDefault == Frac(1, 2)

\* C28 as claimed: for a frame with at least 60 bars and any of the
\* indicator columns removed, calculate_overall_score returns without
\* raising, and a component whose indicators are all absent enters the
\* composite with the neutral default 0.5: trend without the averages and
\* ADX, volatility without atr, oscillator without rsi14, pattern without
\* the pattern flags.
C28_MissingColumnsNeutral ==
    (score_pc = "scored" /\ df.n >= 60) =>
        /\ ~score_out.raised
        /\ LET scores == score_out.value.component_scores
           IN  /\ Columns(df) \cap {"sma20", "sma50", "sma200", "ADX_14"} = {}
                     => scores.trend = NeutralDefault
               /\ "atr" \notin Columns(df) => scores.volatility = NeutralDefault
               /\ "rsi14" \notin Columns(df) => scores.oscillator = NeutralDefault
               /\ Columns(df) \cap {"doji", "engulfing", "hammer", "shooting_star"} = {}
                     => scores.pattern = NeutralDefault

(* --------------- backtest_node: names, order and repetition ------------- *)

\* The position of the last strategy of the list with the name `name`.
LastNamed(name) ==
    CHOOSE k \in 1..Len(strategies) :
        /\ strategies[k].name = name
        /\ \A j \in (k + 1)..Len(strategies) : strategies[j].name # name

\* The number of items of the results under the key `name`.
EntriesUnder(name) == Cardinality({ k \in 1..Len(results) : results[k].key = name })

\* C29: when backtest_node returns, results["benchmark"] is the Buy & Hold
\* bundle, without vs_benchmark, also when a strategy is named "benchmark";
\* and every strategy name has exactly one entry, the one of the last
\* strategy of the list with that name.
C29_BenchmarkAndLastWins ==
    Returned =>
        /\ EntriesUnder("benchmark") = 1
        /\ DictGet(results, "benchmark") = benchmark_metrics.value
        /\ DictGet(results, "benchmark").strategy = "Buy & Hold"
        /\ "vs_benchmark" \notin DOMAIN DictGet(results, "benchmark")
        /\ \A k \in 1..Len(strategies) :
              /\ EntriesUnder(strategies[k].name) = 1
              /\ strategies[k].name # "benchmark" =>
                    DictGet(results, strategies[k].name)
                        = Solo(strategies[LastNamed(strategies[k].name)])

\* C29 witness: two strategies named "A" with different entry signals were
\* evaluated, the first failed and the second did not; the results hold the
\* bundle of the second under "A", and the benchmark.
C29_Witness ==
    /\ bt_pc = "returned"
    /\ Len(strategies) = 2
    /\ strategies[1].name = "A"
    /\ strategies[2].name = "A"
    /\ IsError(Solo(strategies[1]))
    /\ IsBundle(Solo(strategies[2]))
    /\ Len(results) = 2
    /\ DictGet(results, "A") = Solo(strategies[2])

\* C29 witness of the name clash: a strategy named "benchmark" was
\* evaluated and its bundle was replaced by the Buy & Hold bundle.
C29_NamedBenchmark ==
    /\ bt_pc = "returned"
    /\ Len(strategies) = 1
    /\ strategies[1].name = "benchmark"
    /\ IsBundle(Solo(strategies[1]))
    /\ Solo(strategies[1]).strategy = "benchmark"
    /\ results = <<[key |-> "benchmark", value |-> benchmark_metrics.value]>>

\* An entry of the results without its wall-clock-anchored period returns.
WithoutPeriodReturns(entry) ==
    [k \in DOMAIN entry \ {"period_returns"} |-> entry[k]]

\* The results as a mapping from names to entries, period returns left out.
Timeless(res) ==
    [name \in DictKeys(res) |-> WithoutPeriodReturns(DictGet(res, name))]

\* C23 as claimed: a second run of backtest_node on the same price series
\* and the same strategies, at whatever wall-clock time, returns a results
\* mapping equal to the first in every field but period_returns.
C23_SecondRunIdentical ==
    Returned =>
        \A now \in RunDates : \A sl \in BOOLEAN :
            LET second == backtest_node(close, strategies, now, sl)
            IN  /\ ~second.raised
                /\ Timeless(second.value) = Timeless(results)

\* The results as a mapping from names to entries.
Mapping(res) == [name \in DictKeys(res) |-> DictGet(res, name)]

\* The strategy list in another order.
Reordered(p) == [k \in 1..Len(strategies) |-> strategies[p[k]]]

DistinctNames ==
    \A j, k \in 1..Len(strategies) : strategies[j].name = strategies[k].name => j = k

C30_PositivePercentile ==
    /\ risk_pc = "done"
    /\ returns = <<1, 2, 2>>
    /\ Percentile(returns, 5) = Frac(11, 10)
    /\ risk_metrics.cvar_95 = risk_metrics.var_95

\* The same with a 5th percentile of zero.
C30_ZeroPercentile ==
    /\ risk_pc = "done"
    /\ returns = <<0, 0, 1>>
    /\ Percentile(returns, 5) = Num(0)
    /\ risk_metrics.var_95 = Num(0)
    /\ risk_metrics.cvar_95 = Num(0)

(* ------------------- the stage graph (langgraph_flow) ------------------ *)

\* builder.add_node(...), lines 9-13.
Nodes == {"fetch_data", "generate_strategies", "backtest", "evaluate", "report"}

\* builder.set_entry_point("fetch_data"), line 15.
EntryPoint == "fetch_data"

\* builder.add_edge(...), lines 16-19.
Edges ==
    { <<"fetch_data", "generate_strategies">>,
      <<"generate_strategies", "backtest">>,
      <<"backtest", "evaluate">>,
      <<"evaluate", "report">> }

\* The nodes an edge leads to from `name`.
Successors(name) == { e[2] : e \in { d \in Edges : d[1] = name } }

\* fetch_data_node(state): the node is imported by langgraph_flow.py from
\* agents.data_fetch_agent, which does not define it. Taken from the
\* specification: the price series of the stock is fetched once per run and
\* handed on with the symbol.
fetch_data_node(state, prices) ==
    IF "stock" \notin DOMAIN state THEN KeyError("stock")
    ELSE Ok([stock |-> state["stock"], data |-> prices])

\* generate_strategies_node(state): the symbol and the LLM's answer.
generate_strategies_node(state, answer) ==
    IF "stock" \notin DOMAIN state THEN KeyError("stock")
    ELSE Ok([stock |-> state["stock"], strategies |-> answer])

\* backtest_node(state) as a graph node: state["data"] and
\* state["strategies"] are read first, the dict of lines 58-62 is returned.
backtest_stage(state, now, sl) ==
    IF "data" \notin DOMAIN state THEN KeyError("data")
    ELSE IF "strategies" \notin DOMAIN state THEN KeyError("strategies")
    ELSE LET res == backtest_node(state["data"], state["strategies"], now, sl)
         IN  IF res.raised THEN Raise(res.error)
             ELSE IF "stock" \notin DOMAIN state THEN KeyError("stock")
             ELSE Ok([stock |-> state["stock"],
                      period |-> <<1, Len(state["data"])>>,
                      results |-> res.value])

\* evaluate_node(state) as a graph node.
evaluate_stage(state) ==
    IF "results" \notin DOMAIN state THEN KeyError("results")
    ELSE LET ranked == evaluate_node(state["results"])
         IN  IF ranked.raised THEN Raise(ranked.error)
             ELSE IF "stock" \notin DOMAIN state THEN KeyError("stock")
             ELSE Ok([stock |-> state["stock"],
                      top_3 |-> ranked.value.top_3,
                      scored |-> ranked.value.scored])

\* report_node(state): the state with the paths of the files written. The
\* files themselves and the charts are not part of the state machine.
report_node(state) ==
    IF "stock" \notin DOMAIN state THEN KeyError("stock")
    ELSE Ok([report_paths |-> state["stock"]] @@ state)

\* The function added to the graph under `name`, applied to the state.
RunNode(name, state, prices, answer, now, sl) ==
    CASE name = "fetch_data" -> fetch_data_node(state, prices)
      [] name = "generate_strategies" -> generate_strategies_node(state, answer)
      [] name = "backtest" -> backtest_stage(state, now, sl)
      [] name = "evaluate" -> evaluate_stage(state)
      [] name = "report" -> report_node(state)

\* How the graph library applies what a node returned. langgraph is not in
\* src/ and StateGraph() is built without a state schema: the returned dict
\* either updates the keys of the state or becomes the state.
ChannelModes == {"update", "replace"}

ApplyReturn(mode, state, returned) ==
    IF mode = "update" THEN returned @@ state ELSE returned

\* Stock symbols given to run(): main.py runs "INFY".
Symbols == {"INFY", "TCS"}

\* Number of strategies in the LLM's answer.
MaxAnswered == 1

PipeInit ==
    /\ today \in RunDates
    /\ slice_ok \in BOOLEAN
    /\ pipe_pc = "ready"
    /\ pipe_node = ""
    /\ executed = <<>>
    /\ pipe_state = NoState
    /\ fetched \in BatchCloses
    /\ response \in SeqsUpTo(StrategyPool(2), MaxAnswered)
    /\ channels \in ChannelModes
    /\ BacktestOff /\ EngineOff

\* run(stock_symbol): graph.invoke({"stock": stock_symbol}) starts at the
\* entry point.
Invoke ==
    /\ pipe_pc = "ready"
    /\ \E stock_symbol \in Symbols : pipe_state' = [stock |-> stock_symbol]
    /\ pipe_node' = EntryPoint
    /\ pipe_pc' = "running"
    /\ UNCHANGED <<executed, fetched, response, channels, envVars, backtestVars, engineVars>>

\* One step of the compiled graph: the node the run is at is called with the
\* state; an exception leaves graph.invoke, otherwise the return value is
\* applied and the run follows the node's edge, or ends where there is none.
Step ==
    /\ pipe_pc = "running"
    /\ \E out \in { RunNode(pipe_node, pipe_state, fetched, response, today, slice_ok) } :
           IF out.raised
           THEN /\ pipe_pc' = "raised"
                /\ UNCHANGED <<pipe_node, executed, pipe_state>>
           ELSE /\ executed' = Append(executed, pipe_node)
                /\ pipe_state' = ApplyReturn(channels, pipe_state, out.value)
                /\ IF Successors(pipe_node) = {}
                   THEN pipe_pc' = "ended" /\ pipe_node' = ""
                   ELSE pipe_pc' = "running" /\ pipe_node' \in Successors(pipe_node)
    /\ UNCHANGED <<fetched, response, channels, envVars, backtestVars, engineVars>>

PipeNext == Invoke \/ Step

SpecPipeline == PipeInit /\ [][PipeNext]_vars

\* The five stages in the order of the edges.
Stages == <<"fetch_data", "generate_strategies", "backtest", "evaluate", "report">>

\* The run is over: graph.invoke returned or raised.
RunOver == pipe_pc \in {"ended", "raised"}

\* C25: every run starts at fetch_data and executes fetch_data,
\* generate_strategies, backtest, evaluate, report in exactly that order,
\* each stage exactly once and only after its predecessor completed, with
\* no branch, loop or skipped stage. Stated for the runs that depend on the
\* stages' own code only: an ordinary day, and a library that updates the
\* state key by key, so that no stage loses what an earlier one returned.
C25_EveryRunExecutesTheFiveStages ==
    (today = OrdinaryDay /\ channels = "update") =>
        /\ (pipe_pc = "running" /\ executed = <<>>) => pipe_node = EntryPoint
        /\ executed = SubSeq(Stages, 1, Len(executed))
        /\ RunOver => executed = Stages

\* The part of C25 that holds: the stages that ran form a beginning of the
\* fixed order (no branch, no loop, none skipped before the last one run),
\* and the run is at the stage that follows them.
C25_StagesRunInOrder ==
    /\ Len(executed) <= Len(Stages)
    /\ executed = SubSeq(Stages, 1, Len(executed))
    /\ pipe_pc = "running" => pipe_node = Stages[Len(executed) + 1]

\* Where the runs end: none reaches the report stage. With the state updated
\* key by key the evaluate stage raises KeyError 'sharpe' (or the backtest
\* stage raises on a month-end date); with the state replaced the backtest
\* stage raises KeyError 'data'.
C25_NoRunReachesReport ==
    RunOver =>
        /\ pipe_pc = "raised"
        /\ pipe_node \in {"backtest", "evaluate"}
        /\ "report" \notin { executed[k] : k \in 1..Len(executed) }

====
